---- MODULE Spec2Model ----
(***************************************************************************)
(* A model of backend/unsupervised_engine.py: UnsupervisedAnomalyDetector.  *)
(*                                                                         *)
(* Cell values are strings (sequences of one-character strings) or None.   *)
(* Floats are records [k, v]: k = "num" carries the integer v, k = "nan"   *)
(* and k = "inf" are the two non-finite floats the parse can produce, and  *)
(* k = "none" is Python's None.  Decision scores are integers in units of  *)
(* 1/1000 (a score_samples value in units of 1/10, times 100).             *)
(***************************************************************************)
EXTENDS Integers, Sequences, FiniteSets, TLC

\* ------------------------------------------------------------------ bounds
\* The longest input the model enumerates.
MaxRows == 5
\* The longest input with non-finite cells.
MaxEdgeRows == 3
\* The number of detect_anomalies calls made on the same input.
MaxCalls == 2
\* Lengths of the inputs in which every row but one is the same: up to
\* ShortRows, ScenarioRows (past the default min_samples), and MaxLongRows
\* (past the sample the features are selected from).
ShortRows == 3
ScenarioRows == 25
MaxLongRows == 52
\* The longest cell handed to the coercion helpers on their own.
MaxCellLen == 3
\* The number of rows of each input of the concurrent calls.
ConcRows == 3

\* --------------------------------------------------------- program constants
DefaultContamination == 5
DefaultMinSamples == 20
SampleLimit == 50
\* The severity cutoff -0.1, in units of 1/1000.
SeverityCutoff == -100
\* The largest contamination IsolationForest accepts (0.5), in percent.
MaxContamination == 50

\* ------------------------------------------------------------------ values
NoneVal == <<"<None>">>
PyNone == [k |-> "none", v |-> 0]
NaN == [k |-> "nan", v |-> 0]
Inf == [k |-> "inf", v |-> 0]
Num(n) == [k |-> "num", v |-> n]
\* The exception float() raises on a string that is no number.
ValueError == [k |-> "ValueError", v |-> 0]

Digits == {"0", "1", "2", "3", "4", "5", "6", "7", "8", "9"}

DigitVal(c) ==
    CASE c = "0" -> 0 [] c = "1" -> 1 [] c = "2" -> 2 [] c = "3" -> 3
      [] c = "4" -> 4 [] c = "5" -> 5 [] c = "6" -> 6 [] c = "7" -> 7
      [] c = "8" -> 8 [] c = "9" -> 9

RECURSIVE ParseNat(_)
ParseNat(s) ==
    IF Len(s) = 0 THEN 0
    ELSE 10 * ParseNat(SubSeq(s, 1, Len(s) - 1)) + DigitVal(s[Len(s)])

IsDigits(s) == Len(s) > 0 /\ \A i \in 1..Len(s) : s[i] \in Digits

\* Python's float(str) on the strings of the model: decimal digits with an
\* optional minus sign, and the spellings of the non-finite floats.
PyFloat(s) ==
    IF s \in {<<"n", "a", "n">>, <<"-", "n", "a", "n">>} THEN NaN
    ELSE IF s \in {<<"i", "n", "f">>, <<"-", "i", "n", "f">>} THEN Inf
    ELSE IF IsDigits(s) THEN Num(ParseNat(s))
    ELSE IF Len(s) > 1 /\ s[1] = "-" /\ IsDigits(Tail(s)) THEN Num(0 - ParseNat(Tail(s)))
    ELSE ValueError

IsKept(c) == c \notin {"$", ",", " "}

\* str(value).replace('$', '').replace(',', '').replace(' ', '')
StripFormat(s) == SelectSeq(s, IsKept)

\* _to_numeric without its except clause.
to_numeric_uncaught(value) ==
    IF value = NoneVal THEN PyNone ELSE PyFloat(StripFormat(value))

\* _to_numeric: None for None, the float, or None on ValueError.
to_numeric(value) ==
    IF value = NoneVal THEN PyNone
    ELSE LET parsed == PyFloat(StripFormat(value))
         IN  IF parsed = ValueError THEN PyNone ELSE parsed

\* An _is_numeric that strips the currency sign and the comma only.
is_numeric_keeps_spaces(value) ==
    IF value = NoneVal THEN FALSE
    ELSE PyFloat(SelectSeq(value, LAMBDA c : c \notin {"$", ","})) # ValueError

\* _is_numeric: False for None, True when float() returns, False on ValueError.
is_numeric(value) ==
    IF value = NoneVal THEN FALSE
    ELSE PyFloat(StripFormat(value)) # ValueError

\* A sequence given by a function expression, as a tuple of its values (TLC then
\* computes each element once).
AsTuple(f) == f \o <<>>

\* ------------------------------------------------------------------- rows
ReservedNames == {"page", "table", "row_index", "id"}

\* str.lower() on the column names of the model.
Lower(key) ==
    CASE key = "ID" -> "id"
      [] key = "Page" -> "page"
      [] OTHER -> key

\* dict.get(field)
Get(row, field) == IF field \in DOMAIN row THEN row[field] ELSE NoneVal

Min(a, b) == IF a < b THEN a ELSE b

\* A selection that looks for numeric values in every row of the input.
numeric_fields_all_rows(rows) ==
    { key \in UNION { DOMAIN rows[i] : i \in 1..Len(rows) } :
        \E i \in 1..Len(rows) :
            /\ key \in DOMAIN rows[i]
            /\ is_numeric(rows[i][key])
            /\ Lower(key) \notin ReservedNames }

\* The set numeric_fields collected from the first min(len(rows), 50) rows.
numeric_fields(rows) ==
    LET sample_size == Min(Len(rows), SampleLimit)
    IN  { key \in UNION { DOMAIN rows[i] : i \in 1..sample_size } :
            \E i \in 1..sample_size :
                /\ key \in DOMAIN rows[i]
                /\ is_numeric(rows[i][key])
                /\ Lower(key) \notin ReservedNames }

\* list(numeric_fields): every order a set of strings can iterate in.
Orderings(S) ==
    { f \in [1..Cardinality(S) -> S] : \A i, j \in DOMAIN f : f[i] = f[j] => i = j }

\* A builder that enters 0 for a missing value.
row_features_zero(row, feature_names) ==
    AsTuple([ j \in 1..Len(feature_names) |->
        LET val == to_numeric(Get(row, feature_names[j]))
        IN  IF val # PyNone THEN val ELSE Num(0) ])

\* One row's feature vector: the coerced value, NaN where it is missing.
row_features(row, feature_names) ==
    AsTuple([ j \in 1..Len(feature_names) |->
        LET val == to_numeric(Get(row, feature_names[j]))
        IN  IF val # PyNone THEN val ELSE NaN ])

\* A builder that appends every row, with or without data.
has_data_always(row, feature_names) == TRUE

has_data(row, feature_names) ==
    \E j \in 1..Len(feature_names) : to_numeric(Get(row, feature_names[j])) # PyNone

\* The 0-based indices of the rows i..len(rows) that have data, ascending.
valid_indices(rows, feature_names, i) ==
    SelectSeq(AsTuple([ k \in 1..(Len(rows) - i + 1) |-> i + k - 2 ]),
              LAMBDA r0 : has_data(rows[r0 + 1], feature_names))

\* _extract_features for one iteration order of the set of field names.
extract_features(rows, feature_names) ==
    IF Len(feature_names) = 0
    THEN [features |-> <<>>, row_indices |-> <<>>, feature_names |-> <<>>]
    ELSE LET idx == valid_indices(rows, feature_names, 1)
         IN  [features |-> AsTuple([ m \in 1..Len(idx) |->
                               row_features(rows[idx[m] + 1], feature_names) ]),
              row_indices |-> idx,
              feature_names |-> feature_names]

\* ---------------------------------------------------------- preprocessing
RECURSIVE SumSeq(_)
SumSeq(s) ==
    IF Len(s) = 0 THEN 0
    ELSE IF Len(s) = 1 THEN s[1]
    ELSE LET half == Len(s) \div 2
         IN  SumSeq(SubSeq(s, 1, half)) + SumSeq(SubSeq(s, half + 1, Len(s)))

\* Column j of a matrix, as a sequence over its rows.
Column(X, j) == AsTuple([ i \in 1..Len(X) |-> X[i][j] ])

NCols(X) == IF Len(X) = 0 THEN 0 ELSE Len(X[1])

\* check_array(force_all_finite="allow-nan") of the imputer: infinity is a ValueError.
contains_inf(X) == \E i \in 1..Len(X) : \E j \in 1..Len(X[i]) : X[i][j] = Inf

Present(col) == { i \in 1..Len(col) : col[i] # NaN }

RECURSIVE observed_columns(_, _)
\* SimpleImputer(strategy='mean') keeps, in order, the columns that have at least
\* one observed value and drops the others from its output.
observed_columns(X, j) ==
    IF j > NCols(X) THEN <<>>
    ELSE IF Present(Column(X, j)) # {}
         THEN <<j>> \o observed_columns(X, j + 1)
         ELSE observed_columns(X, j + 1)

ColCount(col) == Cardinality(Present(col))
ColSum(col) == SumSeq([ i \in 1..Len(col) |-> IF col[i] = NaN THEN 0 ELSE col[i].v ])

\* imputer.fit_transform(X): a cell is the rational num/den; a missing cell is
\* the mean of the observed values of its column.
impute(X) ==
    LET cols == observed_columns(X, 1)
        mean == AsTuple([ c \in 1..Len(cols) |->
                    [num |-> ColSum(Column(X, cols[c])),
                     den |-> ColCount(Column(X, cols[c]))] ])
    IN  AsTuple([ i \in 1..Len(X) |->
            AsTuple([ c \in 1..Len(cols) |->
                IF X[i][cols[c]] = NaN THEN mean[c]
                ELSE [num |-> X[i][cols[c]].v, den |-> 1] ]) ])

Max(a, b) == IF a > b THEN a ELSE b

\* The common denominator of a column of the imputed matrix: its cells have the
\* denominator 1 or the count of the column's observed values.
MaxDen(col) ==
    LET dens == { col[i].den : i \in 1..Len(col) }
    IN  IF dens = {} THEN 1 ELSE CHOOSE d \in dens : \A e \in dens : Max(d, e) = d

\* A column of the imputed matrix times its common denominator: integers.
Weighted(col, d) == AsTuple([ i \in 1..Len(col) |-> (col[i].num * d) \div col[i].den ])

SumSq(s) == SumSeq(AsTuple([ i \in 1..Len(s) |-> s[i] * s[i] ]))

Sign(a) == IF a > 0 THEN 1 ELSE IF a < 0 THEN -1 ELSE 0

\* One column standardized: z = (x - mean) / std with the population std, and 0
\* in a constant column (StandardScaler divides by 1 there). z is kept as its
\* sign and its square num/den.
Standardized(w, n, S, D) ==
    AsTuple([ i \in 1..n |->
        IF D = 0 THEN [sgn |-> 0, num |-> 0, den |-> 1]
        ELSE [sgn |-> Sign(n * w[i] - S),
              num |-> (n * w[i] - S) * (n * w[i] - S),
              den |-> D] ])

scale_column(col) ==
    LET w == Weighted(col, MaxDen(col))
        n == Len(col)
        S == SumSeq(w)
    IN  Standardized(w, n, S, n * SumSq(w) - S * S)

\* scaler.fit_transform(X_imputed)
scale(XI) ==
    LET cols == AsTuple([ c \in 1..NCols(XI) |-> scale_column(Column(XI, c)) ])
    IN  AsTuple([ i \in 1..Len(XI) |-> AsTuple([ c \in 1..NCols(XI) |-> cols[c][i] ]) ])

\* |z1| < |z2|
AbsLess(z1, z2) == z1.num * z2.den < z2.num * z1.den

\* np.argmax(np.abs(row_scaled)): the first index (0-based) holding the maximum.
argmax_abs(row_scaled) ==
    (CHOOSE c \in 1..Len(row_scaled) :
        /\ \A d \in 1..Len(row_scaled) : ~AbsLess(row_scaled[c], row_scaled[d])
        /\ \A d \in 1..(c - 1) : AbsLess(row_scaled[d], row_scaled[c])) - 1

\* ------------------------------------------------------- isolation forest
\* score_samples values the model draws from, in units of 1/10.
ScoreVals == {-7, -6, -5}

\* score_samples of the forest fitted on the scaled matrix XS: what the seeded
\* ensemble can return. A tree never separates equal rows, so they score the
\* same. When the matrix holds just two distinct rows, every tree is one split
\* between them with a leaf per value, and the path length 1 + c(leaf size)
\* gives the value held by fewer rows the strictly lower score (equal scores
\* for equal counts).
Forests(XS) ==
    LET n == Len(XS)
        values == { XS[i] : i \in 1..n }
        size == [ x \in values |-> Cardinality({ j \in 1..n : XS[j] = x }) ]
        two == Cardinality(values) = 2
        byValue == { f \in [values -> ScoreVals] :
                       \A x, y \in values :
                           /\ (two /\ size[x] < size[y]) => f[x] < f[y]
                           /\ (two /\ size[x] = size[y]) => f[x] = f[y] }
    IN  { AsTuple([ i \in 1..n |-> f[XS[i]] ]) : f \in byValue }

\* The k-th smallest (0-based) of a sequence of integers.
KthSmallest(s, k) ==
    CHOOSE v \in { s[i] : i \in 1..Len(s) } :
        /\ Cardinality({ i \in 1..Len(s) : s[i] < v }) <= k
        /\ Cardinality({ i \in 1..Len(s) : s[i] <= v }) > k

\* The percentile taken at 100 * (1 - contamination).
percentile100_upper(sc, pct) ==
    LET p100 == (Len(sc) - 1) * (100 - pct)
        k == p100 \div 100
        f == p100 % 100
    IN  IF f = 0 THEN 100 * KthSmallest(sc, k)
        ELSE 100 * KthSmallest(sc, k)
             + f * (KthSmallest(sc, k + 1) - KthSmallest(sc, k))

\* offset_ = np.percentile(score_samples, 100 * contamination), linear
\* interpolation, times 100.
percentile100(sc, pct) ==
    LET p100 == (Len(sc) - 1) * pct
        k == p100 \div 100
        f == p100 % 100
    IN  IF f = 0 THEN 100 * KthSmallest(sc, k)
        ELSE 100 * KthSmallest(sc, k)
             + f * (KthSmallest(sc, k + 1) - KthSmallest(sc, k))

\* decision_function(X) = score_samples(X) - offset_, in units of 1/1000.
decision_function(sc, pct) ==
    LET offset == percentile100(sc, pct)
    IN  AsTuple([ i \in 1..Len(sc) |-> 100 * sc[i] - offset ])

\* A prediction that also flags the rows at the threshold.
IsOutlierInclusive(decision) == decision <= 0

IsOutlier(decision) == decision < 0

\* fit_predict: -1 for outliers, 1 for inliers.
fit_predict(sc, pct) ==
    LET d == decision_function(sc, pct)
    IN  AsTuple([ i \in 1..Len(sc) |-> IF IsOutlier(d[i]) THEN -1 ELSE 1 ])

\* IsolationForest validates contamination in (0, 0.5] when it is fitted.
valid_contamination(pct) == pct > 0 /\ pct <= MaxContamination

\* ---------------------------------------------------------------- labeling
\* The two labels exchanged.
severity_swapped(score) == IF score > SeverityCutoff THEN "high" ELSE "medium"

\* The boundary on the other side.
severity_inclusive(score) == IF score >= SeverityCutoff THEN "medium" ELSE "high"

severity(score) == IF score > SeverityCutoff THEN "medium" ELSE "high"

\* The matrix index used as the row index.
matrix_index(row_indices, i) == i

\* row_indices[i] for the 0-based matrix index i.
original_index(row_indices, i) == row_indices[i + 1]

anomaly(rws, row_indices, feature_names, X_imputed, X_scaled, scores, i) ==
    LET row_idx == original_index(row_indices, i)
        score == scores[i + 1]
        row_scaled == X_scaled[i + 1]
        max_dev_idx == argmax_abs(row_scaled)
        key_feature == feature_names[max_dev_idx + 1]
        key_value == X_imputed[i + 1][max_dev_idx + 1]
    IN  [row_index |-> row_idx,
         anomaly_type |-> "ml_outlier",
         severity |-> severity(score),
         raw_json |-> rws[row_idx + 1],
         evidence |-> [algorithm |-> "isolation_forest",
                       anomaly_score |-> score,
                       key_feature |-> key_feature,
                       feature_value |-> key_value,
                       z_score_approx |-> row_scaled[max_dev_idx + 1]]]

\* The 0-based matrix indices from i on whose prediction is -1, ascending.
flagged_indices(predictions, i) ==
    SelectSeq(AsTuple([ k \in 1..(Len(predictions) - i) |-> i + k - 1 ]),
              LAMBDA m : predictions[m + 1] = -1)

\* The loop with anomalies.insert(0, ...) in place of anomalies.append(...).
process_results_prepend(rws, row_indices, feature_names, X_imputed, X_scaled, predictions, scores, i) ==
    LET flagged == flagged_indices(predictions, i)
    IN  AsTuple([ k \in 1..Len(flagged) |->
            anomaly(rws, row_indices, feature_names, X_imputed, X_scaled, scores,
                    flagged[Len(flagged) - k + 1]) ])

\* The loop over enumerate(predictions), from the 0-based matrix index i on:
\* one anomaly appended for each prediction of -1.
process_results(rws, row_indices, feature_names, X_imputed, X_scaled, predictions, scores, i) ==
    LET flagged == flagged_indices(predictions, i)
    IN  AsTuple([ k \in 1..Len(flagged) |->
            anomaly(rws, row_indices, feature_names, X_imputed, X_scaled, scores,
                    flagged[k]) ])

\* ------------------------------------------------------------- the detector
\* config.get(key, default): a config is a set of <<key, value>> pairs.
ConfigGet(config, key, default) ==
    IF \E p \in config : p[1] = key
    THEN (CHOOSE p \in config : p[1] = key)[2]
    ELSE default

\* __init__: contamination is held in percent.
init(config) ==
    [config |-> config,
     contamination |-> ConfigGet(config, "ml_contamination", DefaultContamination),
     min_samples |-> ConfigGet(config, "ml_min_samples", DefaultMinSamples),
     random_state |-> 42]

NoInternals ==
    [feature_names |-> <<>>, row_indices |-> <<>>, features |-> <<>>,
     X_imputed |-> <<>>, X_scaled |-> <<>>, predictions |-> <<>>, scores |-> <<>>]

\* A handler that logs and re-raises.
on_exception_reraise(stage, internals) ==
    [outcome |-> "raised", result |-> <<>>, stage |-> stage, fault |-> TRUE,
     internals |-> internals]

\* The except clause of detect_anomalies: log the error, return [].
on_exception(stage, internals) ==
    [outcome |-> "returned", result |-> <<>>, stage |-> stage, fault |-> TRUE,
     internals |-> internals]

returned(stage, result, internals) ==
    [outcome |-> "returned", result |-> result, stage |-> stage, fault |-> FALSE,
     internals |-> internals]

\* A no-features exit that raises inside the try block.
no_features_raises(internals) == on_exception("no_features", internals)

\* `if not features: return []` after the warning.
no_features(internals) == returned("no_features", <<>>, internals)

\* A gate that only turns away the empty input.
insufficient_only_empty(self, rws) == Len(rws) = 0

\* The gate in front of the try block.
insufficient(self, rws) == Len(rws) = 0 \/ Len(rws) < self.min_samples

\* detect_anomalies(rows), for the order `names` in which the set of numeric
\* fields iterates and the score_samples value sc[i] the fitted forest gives
\* matrix row i.
\* detect_anomalies up to the construction of the forest: the gate, the
\* extraction, the imputer, the scaler, and the forest's check of its
\* contamination. A call that ends there has returned.
preprocess(self, rws, names) ==
    IF insufficient(self, rws) THEN returned("gate", <<>>, NoInternals)
    ELSE
    LET ef == extract_features(rws, names)
        X == ef.features
        in1 == [NoInternals EXCEPT !.feature_names = ef.feature_names,
                                   !.row_indices = ef.row_indices,
                                   !.features = X]
    IN  IF Len(X) = 0 THEN no_features(in1)
        ELSE IF contains_inf(X) THEN on_exception("imputer", in1)
        ELSE
        LET XI == impute(X)
            in2 == [in1 EXCEPT !.X_imputed = XI]
        IN  IF NCols(XI) = 0 THEN on_exception("scaler", in2)
            ELSE
            LET in3 == [in2 EXCEPT !.X_scaled = scale(XI)]
            IN  IF ~valid_contamination(self.contamination)
                THEN on_exception("model", in3)
                ELSE [outcome |-> "running", result |-> <<>>, stage |-> "scaled",
                      fault |-> FALSE, internals |-> in3]

\* detect_anomalies from fit_predict on, for the forest whose score_samples
\* of the matrix rows are sc.
fit_and_label(self, rws, pre, sc) ==
    IF pre.stage # "scaled" THEN pre
    ELSE
    LET samples == AsTuple([ i \in 1..Len(pre.internals.features) |-> sc[i] ])
        predictions == fit_predict(samples, self.contamination)
        scores == decision_function(samples, self.contamination)
        in4 == [pre.internals EXCEPT !.predictions = predictions, !.scores = scores]
    IN  returned("labeled",
                 process_results(rws, in4.row_indices, in4.feature_names,
                                 in4.X_imputed, in4.X_scaled, predictions, scores, 0),
                 in4)

detect_anomalies(self, rws, names, sc) ==
    fit_and_label(self, rws, preprocess(self, rws, names), sc)

\* ------------------------------------------------------------------ inputs
\* Ordinary rows: two rows with numeric cells in both columns (plain, and in
\* currency format beside a numeric column with a reserved name), and a row
\* without any numeric cell.
RowPool ==
    { [a |-> <<"1">>, b |-> <<"1">>],
      [a |-> <<"$", "2">>, b |-> <<"2">>, ID |-> <<"7">>],
      [a |-> <<"x">>, b |-> NoneVal] }

\* Rows with an absent cell, and rows whose cells parse to the non-finite floats.
EdgePool ==
    { [a |-> <<"n", "a", "n">>, b |-> <<"0", ",", "3">>],
      [a |-> <<"i", "n", "f">>],
      [a |-> <<"n", "a", "n">>],
      [a |-> <<"n", "a", "n">>, b |-> <<"2">>] }

\* Inputs in which every row but one is BaseRow: the one row holds another
\* value in the same column, or holds numeric cells in columns of its own, one
\* of them under a reserved name.
BaseRow == [a |-> <<"1">>]

OddRows ==
    { [a |-> <<"9">>],
      [a |-> <<"1">>, c |-> <<"2">>, Page |-> <<"3">>] }

ScenarioLengths == (2..ShortRows) \cup {ScenarioRows, MaxLongRows}

\* Where the one row stands: first, in the middle, last in the sample the
\* features are selected from, first after it, and last.
OddPositions == {1, 2, ScenarioRows \div 2, ScenarioRows, SampleLimit, SampleLimit + 1, MaxLongRows}

ScenarioInputs ==
    { AsTuple([ i \in 1..n |-> IF i = at THEN odd ELSE BaseRow ]) :
        <<n, at, odd>> \in { t \in ScenarioLengths \X OddPositions \X OddRows :
                               t[2] <= t[1] } }

RECURSIVE SeqsUpTo(_, _)
SeqsUpTo(S, n) ==
    IF n = 0 THEN {<<>>}
    ELSE LET shorter == SeqsUpTo(S, n - 1)
         IN  shorter \cup { Append(s, x) : s \in { t \in shorter : Len(t) = n - 1 }, x \in S }

Configs ==
    { {},
      {<<"ml_min_samples", 2>>, <<"ml_contamination", 30>>, <<"random_seed", 7>>},
      {<<"ml_min_samples", 2>>, <<"ml_contamination", 50>>},
      {<<"ml_min_samples", 2>>, <<"ml_contamination", 60>>} }

\* Whether a call on this input gets as far as fitting the forest.
fits_forest(slf, rws) ==
    /\ ~insufficient(slf, rws)
    /\ LET names == CHOOSE o \in Orderings(numeric_fields(rws)) : TRUE
           X == extract_features(rws, names).features
       IN  /\ Len(X) > 0
           /\ ~contains_inf(X)
           /\ NCols(impute(X)) > 0
           /\ valid_contamination(slf.contamination)

\* The scaled matrix the forest is fitted on. The order of its columns depends
\* on the order of the field names; which of its rows are equal does not.
fitted_matrix(rws) ==
    LET names == CHOOSE o \in Orderings(numeric_fields(rws)) : TRUE
    IN  scale(impute(extract_features(rws, names).features))

NoForest == <<>>

\* A call that writes the coerced values back into the rows it read.
rows_after_coerced(rws) ==
    AsTuple([ i \in 1..Len(rws) |->
                [ key \in DOMAIN rws[i] |-> StripFormat(rws[i][key]) ] ])

\* The caller's list after a call: the call slices it, iterates it and reads
\* its cells, and assigns to none of them.
rows_after(rws) == rws

\* A call that keeps the contamination it last validated on the detector.
self_after_cached(slf, c) ==
    [slf EXCEPT !.contamination = IF c.stage = "labeled" THEN 0 ELSE @]

\* The detector after call c: detect_anomalies assigns to no attribute of self;
\* the imputer, the scaler and the forest are locals of the call.
self_after(slf, c) == slf

\* ------------------------------------------------------------------- state
VARIABLES
    rows,       \* the input of the calls
    self,       \* the detector: config, contamination, min_samples, random_state
    forest,     \* score_samples of the forest fitted on this input, once fitted
    calls,      \* the number of calls made
    call,       \* the last call: outcome, result, stage, fault, internals
    prev,       \* the result of the call before it
    cell,       \* a value handed to the coercion helpers
    coerced,    \* what _to_numeric and _is_numeric made of it
    th,         \* the calls running concurrently: position and locals of each
    heap,       \* the fitted state of the forest objects those calls built
    db,         \* the SQLite database: documents, extracted_rows, anomalies
    op,         \* the last call of a SQLiteStorage method and what it gave
    log,        \* the SQLiteStorage calls that wrote, in order
    sb,         \* the Supabase tables the parser API writes to
    task,       \* the request the parser API is serving: position and locals
    resp        \* the last response of the parser API

storeVars == <<db, op, log>>
apiVars == <<sb, task, resp>>

vars == <<rows, self, forest, calls, call, prev, cell, coerced, th, heap,
          db, op, log, sb, task, resp>>

\* The storage layer and the parser API are not in use.
StorageUnused == db = <<>> /\ op = <<>> /\ log = <<>>
ApiUnused == sb = <<>> /\ task = <<>> /\ resp = <<>>

NotCoerced == [to_numeric |-> PyNone, is_numeric |-> FALSE, called |-> FALSE]

NoCall ==
    [outcome |-> "none", result |-> <<>>, stage |-> "none", fault |-> FALSE,
     internals |-> NoInternals]

Init ==
    /\ rows \in SeqsUpTo(RowPool, MaxRows) \cup SeqsUpTo(EdgePool, MaxEdgeRows)
                \cup ScenarioInputs
    /\ self \in { init(c) : c \in Configs }
    /\ forest = NoForest
    /\ calls = 0
    /\ call = NoCall
    /\ prev = <<>>
    /\ cell = NoneVal
    /\ coerced = NotCoerced
    /\ th = <<>>
    /\ heap = <<>>
    /\ StorageUnused
    /\ ApiUnused

\* One call of detect_anomalies on the input. Each call may run in its own
\* interpreter, where the set of field names iterates in any order; the forest,
\* seeded with random_state, scores the same input the same way every time.
Detect ==
    /\ calls < MaxCalls
    /\ \E names \in Orderings(numeric_fields(rows)) :
       \E pre \in {preprocess(self, rows, names)} :
           \E sc \in (IF forest # NoForest \/ pre.stage # "scaled"
                      THEN {forest} ELSE Forests(pre.internals.X_scaled)) :
              \E c \in {fit_and_label(self, rows, pre, sc)} :
                  /\ call' = c
                  /\ forest' = IF c.stage = "labeled" THEN sc ELSE forest
                  /\ self' = self_after(self, c)
    /\ rows' = rows_after(rows)
    /\ prev' = call.result
    /\ calls' = calls + 1
    /\ UNCHANGED <<cell, coerced, th, heap, storeVars, apiVars>>

Next == Detect

Spec == Init /\ [][Next]_vars

\* ------------------------------------------------- the coercion helpers
\* The characters of the cells: a digit, the three characters the helpers
\* strip, a sign, and letters (of "nan" among others).
Alphabet == {"1", "$", ",", " ", "-", "x", "n", "a"}

\* None and every string of up to MaxCellLen characters.
Cells == {NoneVal} \cup SeqsUpTo(Alphabet, MaxCellLen)

InitCoerce ==
    /\ cell \in Cells
    /\ coerced = NotCoerced
    /\ rows = <<>>
    /\ self = init({})
    /\ forest = NoForest
    /\ calls = 0
    /\ call = NoCall
    /\ prev = <<>>
    /\ th = <<>>
    /\ heap = <<>>
    /\ StorageUnused
    /\ ApiUnused

\* The extraction loop's use of the helpers on one cell: _is_numeric(value)
\* when selecting features, _to_numeric(row.get(field)) when building the matrix.
Coerce ==
    /\ ~coerced.called
    /\ coerced' = [to_numeric |-> to_numeric(cell),
                   is_numeric |-> is_numeric(cell),
                   called |-> TRUE]
    /\ UNCHANGED <<cell, rows, self, forest, calls, call, prev, th, heap,
                   storeVars, apiVars>>

NextCoerce == Coerce

SpecCoerce == InitCoerce /\ [][NextCoerce]_vars

\* ------------------------------------------------------ concurrent calls
\* Two calls of detect_anomalies in one process, on one detector, each on its
\* own rows. A call runs from its entry through fit_predict (lines 31-63) in
\* one step and from decision_function to its return (lines 66-99) in
\* another; the steps of the two calls interleave in any order.
Threads == {1, 2}

\* The object that holds no fitted forest.
NoModel == [fitted |-> FALSE, trees |-> {}, offset |-> 0]

\* The forest objects: one per call, and one that calls could share.
Refs == {0} \cup Threads

\* A forest object kept in one place for every call.
new_model_shared(t) == 0

\* iso_forest = IsolationForest(...): a new object, local to the call.
new_model(t) == t

\* The fitted forest: the score of each row it was fitted on, and offset_.
fitted_model(XS, sc, pct) ==
    [fitted |-> TRUE,
     trees |-> { <<XS[i], sc[i]>> : i \in 1..Len(XS) },
     offset |-> percentile100(sc, pct)]

\* score_samples of a fitted forest for one row: the score of the row it was
\* fitted on; a row it has not seen falls into some leaf and is given the
\* lowest score of the forest.
score_of(model, x) ==
    IF \E p \in model.trees : p[1] = x
    THEN (CHOOSE p \in model.trees : p[1] = x)[2]
    ELSE CHOOSE v \in { p[2] : p \in model.trees } :
             \A p \in model.trees : v <= p[2]

\* iso_forest.decision_function(X_scaled) on the object as it is when called.
decision_function_of(model, XS) ==
    AsTuple([ i \in 1..Len(XS) |-> 100 * score_of(model, XS[i]) - model.offset ])

ConcPool ==
    { [a |-> <<"1">>, b |-> <<"1">>],
      [a |-> <<"$", "2">>, b |-> <<"2">>, ID |-> <<"7">>] }

ConcInputs == { rws \in SeqsUpTo(ConcPool, ConcRows) : Len(rws) = ConcRows }

\* The detector of the concurrent calls: with the defaults, and with a small
\* min_samples and a contamination the forest accepts or rejects.
ConcConfigs == { c \in Configs : \A p \in c : p[1] # "random_seed" }

\* A call that has not started.
Started(rws) ==
    [pc |-> "start", rows |-> rws, names |-> <<>>, sc |-> NoForest, ref |-> 0,
     internals |-> NoInternals, result |-> <<>>, outcome |-> "none",
     overlapped |-> FALSE]

InitConc ==
    /\ th \in [Threads -> { Started(rws) : rws \in ConcInputs }]
    /\ heap = [r \in Refs |-> NoModel]
    /\ self \in { init(c) : c \in ConcConfigs }
    /\ rows = <<>>
    /\ forest = NoForest
    /\ calls = 0
    /\ call = NoCall
    /\ prev = <<>>
    /\ cell = NoneVal
    /\ coerced = NotCoerced
    /\ StorageUnused
    /\ ApiUnused

\* list(numeric_fields) in call t: the calls run in one interpreter, where a
\* set built from the same names in the same order iterates in the same order.
process_orderings(t) ==
    { o \in Orderings(numeric_fields(th[t].rows)) :
        \A u \in Threads \ {t} :
            (/\ th[u].pc # "start"
             /\ numeric_fields(th[u].rows) = numeric_fields(th[t].rows))
            => o = th[u].names }

\* Call t from its entry through fit_predict: the gate, the extraction, the
\* imputer and the scaler, the construction of the forest object, its fit. A
\* call that leaves early or faults is done.
Fit(t) ==
    /\ th[t].pc = "start"
    /\ \E names \in process_orderings(t) :
       \E sc \in (IF fits_forest(self, th[t].rows)
                  THEN Forests(fitted_matrix(th[t].rows)) ELSE {NoForest}) :
          \E c \in {detect_anomalies(self, th[t].rows, names, sc)} :
          \E ref \in {new_model(t)} :
              IF c.stage # "labeled"
              THEN /\ th' = [th EXCEPT ![t] = [@ EXCEPT !.pc = "done",
                                                        !.names = names,
                                                        !.sc = sc,
                                                        !.result = c.result,
                                                        !.outcome = c.outcome]]
                   /\ heap' = heap
              ELSE /\ th' = [th EXCEPT ![t] =
                               [@ EXCEPT !.pc = "fitted",
                                         !.names = names,
                                         !.sc = sc,
                                         !.ref = ref,
                                         !.internals =
                                             [c.internals EXCEPT !.scores = <<>>]]]
                   /\ heap' = [heap EXCEPT ![ref] =
                                 fitted_model(c.internals.X_scaled, sc,
                                              self.contamination)]
    /\ UNCHANGED <<rows, self, forest, calls, call, prev, cell, coerced,
                   storeVars, apiVars>>

\* Call t from decision_function to its return: the scores are read from the
\* forest object the call holds, the flagged rows are labeled.
Finish(t) ==
    /\ th[t].pc = "fitted"
    /\ \E own \in {th[t].internals} :
       \E scores \in {decision_function_of(heap[th[t].ref], own.X_scaled)} :
           th' = [th EXCEPT ![t] =
                    [@ EXCEPT !.pc = "done",
                              !.internals = [own EXCEPT !.scores = scores],
                              !.result = process_results(th[t].rows, own.row_indices,
                                             own.feature_names, own.X_imputed,
                                             own.X_scaled, own.predictions, scores, 0),
                              !.outcome = "returned",
                              !.overlapped = \E u \in Threads \ {t} :
                                                th[u].pc = "fitted"]]
    /\ UNCHANGED <<rows, self, forest, calls, call, prev, cell, coerced, heap,
                   storeVars, apiVars>>

NextConc == \E t \in Threads : Fit(t) \/ Finish(t)

SpecConc == InitConc /\ [][NextConc]_vars

\* ------------------------------------------------------ SQLite storage
\* local_storage.py, class SQLiteStorage. A nullable value (a Python None, an
\* SQL NULL) is the empty tuple, a value v that is there is <<v>>.
MaxWrites == 3
MaxStoreRows == 2
MaxAnomalies == 2

Null == <<>>
Some(v) == <<v>>

DocIds == {"d1", "d2"}

\* dict.get(key): None when the key is missing.
DictGet(d, key) == IF key \in DOMAIN d THEN Some(d[key]) ELSE Null

\* dict.get(key, default).
DictGetOr(d, key, default) == IF key \in DOMAIN d THEN d[key] ELSE default

\* Python's truth value of dict.get(key): None and the empty dict are false.
Truthy(v) == v # Null /\ v # Some(<<>>)

\* json.dumps and json.loads on the values stored here (dicts of text): the
\* text holds the value, and loading it gives the value back.
json_dumps(v) == [json |-> v]
json_loads(text) == text.json

\* What a storage call gives: the database after it, what it returned, and
\* whether it raised (then nothing was committed).
Gave(d, result) == [db |-> d, result |-> result, raised |-> FALSE]
Raised(d, error) == [db |-> d, result |-> error, raised |-> TRUE]

\* init_db: the three empty tables. PRAGMA foreign_keys is never issued, so the
\* connections enforce foreign keys only when the SQLite library was built
\* with them on by default.
init_db(fk) ==
    [foreign_keys |-> fk, documents |-> {}, extracted_rows |-> {}, anomalies |-> <<>>]

HasDocument(d, document_id) == \E doc \in d.documents : doc.id = document_id

\* FOREIGN KEY (document_id) REFERENCES documents (id), when enforced.
fk_violated(d, document_id) == d.foreign_keys /\ ~HasDocument(d, document_id)

store_document(d, document_data) ==
    LET document_id == document_data.id
        doc == [id |-> document_id,
                file_name |-> DictGet(document_data, "file_name"),
                status |-> Some(DictGetOr(document_data, "status", "uploaded")),
                rows_count |-> Some(DictGetOr(document_data, "rows_count", 0)),
                anomalies_count |-> Some(DictGetOr(document_data, "anomalies_count", 0)),
                insights_summary |->
                    IF Truthy(DictGet(document_data, "insights_summary"))
                    THEN Some(json_dumps(document_data.insights_summary)) ELSE Null,
                error_message |-> DictGet(document_data, "error_message")]
    IN  IF HasDocument(d, document_id) \/ doc.file_name = Null
        THEN Raised(d, "IntegrityError")
        ELSE Gave([d EXCEPT !.documents = @ \cup {doc}], document_id)

\* store_rows with the rows left in place that the call does not replace.
store_rows(d, document_id, rws) ==
    LET rows_to_insert == { [document_id |-> document_id, row_index |-> idx,
                             raw_json |-> json_dumps(rws[idx + 1])] :
                            idx \in 0..(Len(rws) - 1) }
        replaced == { r \in d.extracted_rows :
                        \E n \in rows_to_insert : /\ n.document_id = r.document_id
                                                  /\ n.row_index = r.row_index }
    IN  IF rows_to_insert # {} /\ fk_violated(d, document_id)
        THEN Raised(d, "IntegrityError")
        ELSE Gave([d EXCEPT !.extracted_rows = (@ \ replaced) \cup rows_to_insert],
                  Len(rws))

get_document(d, document_id) ==
    IF ~HasDocument(d, document_id) THEN Gave(d, Null)
    ELSE LET doc == CHOOSE x \in d.documents : x.id = document_id
         IN  Gave(d, Some(IF doc.insights_summary # Null
                          THEN [doc EXCEPT !.insights_summary =
                                               Some(json_loads(@[1]))]
                          ELSE doc))

\* The records of S in ascending row_index order.
OrderByRowIndex(S) ==
    AsTuple([ k \in 1..Cardinality(S) |->
        CHOOSE r \in S : Cardinality({ q \in S : q.row_index < r.row_index }) = k - 1 ])

\* LIMIT limit OFFSET offset on a result: a negative limit is no limit, a
\* negative offset is 0.
LimitOffset(s, limit, offset) ==
    LET from == IF offset < 0 THEN 0 ELSE offset
        upto == IF limit < 0 THEN Len(s) ELSE Min(Len(s), from + limit)
    IN  SubSeq(s, from + 1, upto)

get_rows(d, document_id, limit, offset) ==
    LET found == LimitOffset(
                     OrderByRowIndex({ r \in d.extracted_rows :
                                         r.document_id = document_id }),
                     limit, offset)
    IN  Gave(d, AsTuple([ k \in 1..Len(found) |->
                    [row_index |-> found[k].row_index,
                     raw_json |-> json_loads(found[k].raw_json)] ]))

\* update_document_status with status written as the first assignment whatever
\* it is: a status of None is stored as NULL.
update_document_status(d, document_id, status, rows_count, error_message, anomalies_count, insights_summary) ==
    LET updated(doc) ==
            [doc EXCEPT
                !.status = status,
                !.rows_count = IF rows_count # Null THEN rows_count ELSE @,
                !.anomalies_count = IF anomalies_count # Null THEN anomalies_count ELSE @,
                !.error_message = IF error_message # Null THEN error_message ELSE @,
                !.insights_summary = IF insights_summary # Null
                                     THEN Some(json_dumps(insights_summary[1])) ELSE @]
    IN  Gave([d EXCEPT !.documents =
                 { IF doc.id = document_id THEN updated(doc) ELSE doc : doc \in @ }],
             Null)

\* The anomalies record of one anomaly dict.
anomaly_record(document_id, an) ==
    [document_id |-> document_id,
     row_index |-> DictGet(an, "row_index"),
     anomaly_type |-> DictGet(an, "anomaly_type"),
     severity |-> DictGet(an, "severity"),
     description |-> DictGet(an, "description"),
     raw_json |-> IF Truthy(DictGet(an, "raw_json"))
                  THEN Some(json_dumps(an.raw_json)) ELSE Null,
     evidence |-> IF Truthy(DictGet(an, "evidence"))
                  THEN Some(json_dumps(an.evidence)) ELSE Null]

\* anomaly_type, severity and description are NOT NULL.
not_null_violated(rec) ==
    rec.anomaly_type = Null \/ rec.severity = Null \/ rec.description = Null

store_anomalies(d, document_id, anomalies) ==
    LET anomalies_to_insert ==
            AsTuple([ k \in 1..Len(anomalies) |->
                        anomaly_record(document_id, anomalies[k]) ])
        inserted == [d EXCEPT !.anomalies = @ \o anomalies_to_insert]
    IN  IF \/ \E k \in 1..Len(anomalies) : not_null_violated(anomalies_to_insert[k])
           \/ Len(anomalies) > 0 /\ fk_violated(d, document_id)
        THEN Raised(d, "IntegrityError")
        ELSE Gave(update_document_status(inserted, document_id, Null, Null, Null,
                                         Some(Len(anomalies)), Null).db,
                  Len(anomalies))

\* The anomalies records of one document, in the order they were inserted.
anomalies_of(d, document_id) ==
    SelectSeq(d.anomalies, LAMBDA rec : rec.document_id = document_id)

\* One anomalies record as get_anomalies returns it.
anomaly_dict(rec) ==
    [document_id |-> rec.document_id,
     row_index |-> rec.row_index,
     anomaly_type |-> rec.anomaly_type[1],
     severity |-> rec.severity[1],
     description |-> rec.description[1],
     raw_json |-> IF rec.raw_json # Null THEN Some(json_loads(rec.raw_json[1])) ELSE Null,
     evidence |-> IF rec.evidence # Null THEN Some(json_loads(rec.evidence[1])) ELSE Null]

\* ORDER BY severity DESC as text: 'medium' sorts before 'high'.
SeverityRank(sev) == IF sev = "medium" THEN 0 ELSE 1

\* get_anomalies: the records of the document by severity DESC, detected_at
\* DESC. detected_at is CURRENT_TIMESTAMP to the second, so records of one
\* severity may tie; the anomalies stored here differ in nothing but their
\* severity, so every order SQLite may choose among them is this sequence.
get_anomalies(d, document_id) ==
    LET found == anomalies_of(d, document_id)
        of(rank) == SelectSeq(found, LAMBDA rec : SeverityRank(rec.severity[1]) = rank)
        ordered == of(0) \o of(1)
    IN  Gave(d, AsTuple([ k \in 1..Len(ordered) |-> anomaly_dict(ordered[k]) ]))

\* delete_document with ON DELETE CASCADE in force on every connection.
delete_document_cascading(d, document_id) ==
    Gave([d EXCEPT
             !.documents = { doc \in @ : doc.id # document_id },
             !.extracted_rows = { r \in @ : r.document_id # document_id },
             !.anomalies = SelectSeq(@, LAMBDA rec : rec.document_id # document_id)],
         Null)

\* delete_document: the document record is deleted; its extracted_rows and
\* anomalies records go with it where foreign keys are enforced.
delete_document(d, document_id) ==
    IF d.foreign_keys THEN delete_document_cascading(d, document_id)
    ELSE Gave([d EXCEPT !.documents = { doc \in @ : doc.id # document_id }], Null)

\* ------------------------------------------------- SQLite storage: calls
engineVars == <<rows, self, forest, calls, call, prev, cell, coerced, th, heap>>

\* The detector is not in use.
EngineUnused ==
    /\ rows = <<>>
    /\ self = init({})
    /\ forest = NoForest
    /\ calls = 0
    /\ call = NoCall
    /\ prev = <<>>
    /\ cell = NoneVal
    /\ coerced = NotCoerced
    /\ th = <<>>
    /\ heap = <<>>

\* The documents handed to store_document; the last one has no file_name.
DocumentData ==
    { [id |-> d, file_name |-> "f.csv", file_type |-> "csv"] : d \in DocIds }
        \cup { [id |-> "d1", file_type |-> "csv"] }

\* The rows handed to store_rows: up to MaxStoreRows rows of one content for
\* the first document, one row of another content for either document.
OtherRow == [a |-> "2", b |-> ""]
RowLists ==
    { <<"d1", AsTuple([ i \in 1..n |-> [a |-> "1"] ])>> : n \in 0..MaxStoreRows }
        \cup { <<d, <<OtherRow>>>> : d \in DocIds }

\* The anomalies handed to store_anomalies: up to MaxAnomalies anomalies of one
\* severity, and one anomaly without a severity.
AnomalyOf(sev) ==
    [row_index |-> 0, anomaly_type |-> "ml_outlier", severity |-> sev,
     description |-> "Statistical outlier detected by ML model.",
     raw_json |-> [a |-> "1"],
     evidence |-> [algorithm |-> "isolation_forest"]]
AnomalyLists ==
    { <<"d1", AsTuple([ i \in 1..n |-> AnomalyOf("high") ])>> : n \in 0..MaxAnomalies }
        \cup { <<d, <<AnomalyOf("medium")>>>> : d \in DocIds }
        \cup { <<"d1", <<[row_index |-> 0, anomaly_type |-> "ml_outlier",
                          description |-> "no severity", raw_json |-> <<>>]>>>> }

\* The status updates made: status, rows_count, error_message.
StatusUpdates ==
    { <<Some("processing"), Null, Null>>,
      <<Some("completed"), Some(1), Null>>,
      <<Some("failed"), Null, Some("parse error")>> }

\* The pages asked of get_rows: limit and offset (100 and 0 by default).
Pages == { <<100, 0>>, <<1, 0>>, <<1, 1>>, <<0, 0>>, <<-1, 1>> }

\* A call as it is kept: the method, the document it was for, its other
\* arguments under their names, whether it raised, and what it returned (or
\* the error it raised) under the name of what that is.
NoArgs == [none |-> Null]
NoOp == [name |-> "none", document_id |-> "", args |-> NoArgs,
         result |-> [none |-> Null], raised |-> FALSE]

Called(name, document_id, args, what, gave) ==
    [name |-> name, document_id |-> document_id, args |-> args,
     result |-> IF gave.raised THEN [error |-> gave.result]
                ELSE [w \in {what} |-> gave.result],
     raised |-> gave.raised]

InitStore ==
    /\ db \in { init_db(fk) : fk \in BOOLEAN }
    /\ op = NoOp
    /\ log = <<>>
    /\ EngineUnused
    /\ ApiUnused

\* Every call below is one method of SQLiteStorage called once. A call that
\* writes leaves the database as the method left it and is logged; a call that
\* reads leaves the database as it is.
StoreDocument ==
    /\ Len(log) < MaxWrites
    /\ \E document_data \in DocumentData :
       \E gave \in {store_document(db, document_data)} :
           /\ db' = gave.db
           /\ op' = Called("store_document", document_data.id,
                        [document_data |-> document_data], "document_id", gave)
           /\ log' = Append(log, op')
    /\ UNCHANGED <<engineVars, apiVars>>

StoreRows ==
    /\ Len(log) < MaxWrites
    /\ \E call_args \in RowLists :
       \E gave \in {store_rows(db, call_args[1], call_args[2])} :
           /\ db' = gave.db
           /\ op' = Called("store_rows", call_args[1], [rows |-> call_args[2]],
                        "count", gave)
           /\ log' = Append(log, op')
    /\ UNCHANGED <<engineVars, apiVars>>

UpdateDocumentStatus ==
    /\ Len(log) < MaxWrites
    /\ \E u \in StatusUpdates :
       \E gave \in {update_document_status(db, "d1", u[1], u[2], u[3], Null, Null)} :
           /\ db' = gave.db
           /\ op' = Called("update_document_status", "d1",
                        [status |-> u[1], rows_count |-> u[2], error_message |-> u[3]],
                        "none", gave)
           /\ log' = Append(log, op')
    /\ UNCHANGED <<engineVars, apiVars>>

StoreAnomalies ==
    /\ Len(log) < MaxWrites
    /\ \E call_args \in AnomalyLists :
       \E gave \in {store_anomalies(db, call_args[1], call_args[2])} :
           /\ db' = gave.db
           /\ op' = Called("store_anomalies", call_args[1], [anomalies |-> call_args[2]],
                        "count", gave)
           /\ log' = Append(log, op')
    /\ UNCHANGED <<engineVars, apiVars>>

DeleteDocument ==
    /\ Len(log) < MaxWrites
    /\ \E document_id \in DocIds :
       \E gave \in {delete_document(db, document_id)} :
           /\ db' = gave.db
           /\ op' = Called("delete_document", document_id, NoArgs, "none", gave)
           /\ log' = Append(log, op')
    /\ UNCHANGED <<engineVars, apiVars>>

GetDocument ==
    /\ \E document_id \in DocIds :
       \E gave \in {get_document(db, document_id)} :
           /\ db' = gave.db
           /\ op' = Called("get_document", document_id, NoArgs, "document", gave)
    /\ UNCHANGED <<log, engineVars, apiVars>>

GetRows ==
    /\ \E document_id \in DocIds, page \in Pages :
       \E gave \in {get_rows(db, document_id, page[1], page[2])} :
           /\ db' = gave.db
           /\ op' = Called("get_rows", document_id, [limit |-> page[1], offset |-> page[2]],
                        "rows", gave)
    /\ UNCHANGED <<log, engineVars, apiVars>>

GetAnomalies ==
    /\ \E document_id \in DocIds :
       \E gave \in {get_anomalies(db, document_id)} :
           /\ db' = gave.db
           /\ op' = Called("get_anomalies", document_id, NoArgs, "anomalies", gave)
    /\ UNCHANGED <<log, engineVars, apiVars>>

\* The calls that store, read and delete the rows of documents.
NextRows ==
    \/ StoreDocument
    \/ StoreRows
    \/ DeleteDocument
    \/ GetRows

SpecRows == InitStore /\ [][NextRows]_vars

\* The calls that store and read the anomalies and the status of documents.
NextAnomalies ==
    \/ StoreDocument
    \/ UpdateDocumentStatus
    \/ StoreAnomalies
    \/ DeleteDocument
    \/ GetDocument
    \/ GetAnomalies

SpecAnomalies == InitStore /\ [][NextAnomalies]_vars
\* ------------------------------------------------------------ the parser API
\* main.py: the Supabase tables the API writes to are in `sb`, the request
\* being served and the position of process_document in it are in `task`, and
\* the last HTTP response is in `resp`. Every request to Supabase
\* (.execute()) either succeeds or raises; a request that raises changes
\* nothing in the tables.
MaxBatches == 2

batch_size == 1000

MissingId == "d0"

\* The documents as the uploading client inserted them.
UploadedDocument == [status |-> "uploaded", rows_count |-> Null, error_message |-> Null]

\* The tables: the documents by id, and the insert requests made on
\* extracted_rows, each with the records of its batch, in the order issued.
Supabase == [documents |-> [id \in DocIds |-> UploadedDocument], inserts |-> <<>>]

RECURSIVE Flatten(_)
Flatten(batches) ==
    IF batches = <<>> THEN <<>> ELSE Head(batches) \o Flatten(Tail(batches))

\* The extracted_rows table: the records of all inserts.
extracted_rows(s) == Flatten(s.inserts)

\* supabase.table('extracted_rows').insert(batch).execute()
supabase_insert(s, batch) == [s EXCEPT !.inserts = Append(@, batch)]

\* supabase.table('documents').update(update_data).eq('id', document_id):
\* the columns named in update_data change, on the document that matches.
supabase_update(s, document_id, update_data) ==
    IF document_id \in DOMAIN s.documents
        THEN [s EXCEPT !.documents[document_id] =
                  [column \in DOMAIN @ |->
                      IF column \in DOMAIN update_data THEN update_data[column] ELSE @[column]]]
        ELSE s

\* supabase.table('documents').select('*').eq('id', document_id): result.data
supabase_select(s, document_id) ==
    IF document_id \in DOMAIN s.documents
        THEN <<[id |-> document_id] @@ s.documents[document_id]>>
        ELSE <<>>

\* The exceptions: what Supabase raises, what a parser raises (the download
\* failed, the file could not be read), what get_parser raises, and the
\* HTTPException of FastAPI, a subclass of Exception.
PlainException(message) == [type |-> "Exception", status_code |-> 0, detail |-> message]
HTTPException(status_code, detail) ==
    [type |-> "HTTPException", status_code |-> status_code, detail |-> detail]
SupabaseError == PlainException("Supabase request failed")
ParseError == PlainException("Failed to parse file")
UnsupportedFileType == PlainException("Unsupported file type")

\* str(e): the text of an exception.
str(e) == [str |-> e]

\* An update_data that leaves the error message out.
update_data_without_message(status, rows_count, error_message) ==
    IF rows_count # Null
        THEN [column \in {"status", "rows_count"} |->
                 IF column = "status" THEN status ELSE rows_count]
        ELSE [column \in {"status"} |-> status]

\* The update_data of update_document_status: status always, rows_count and
\* error_message when they are not None.
update_data_of(status, rows_count, error_message) ==
    LET given == (IF rows_count # Null THEN {"rows_count"} ELSE {})
                 \cup (IF error_message # Null THEN {"error_message"} ELSE {})
    IN  [column \in {"status"} \cup given |->
            CASE column = "status" -> status
              [] column = "rows_count" -> rows_count
              [] column = "error_message" -> error_message]

\* update_document_status of main.py, when the request to Supabase succeeds.
api_update_document_status(s, document_id, status, rows_count, error_message) ==
    supabase_update(s, document_id, update_data_of(status, rows_count, error_message))

\* get_parser: the parser of a file type, whatever its case.
SupportedTypes == {"pdf", "csv", "xlsx"}
FileTypes == SupportedTypes \cup {"PDF", "txt"}
lower(file_type) == IF file_type = "PDF" THEN "pdf" ELSE file_type
get_parser(file_type) ==
    IF lower(file_type) \in SupportedTypes
        THEN [raised |-> FALSE, result |-> [parser |-> lower(file_type)]]
        ELSE [raised |-> TRUE, result |-> [error |-> UnsupportedFileType]]

\* The rows a parser returns: dicts of text, here one cell each, different in
\* every row.
ParsedRows(n) == [k \in 1..n |-> [a |-> ToString(k)]]

\* rows_to_insert of store_extracted_rows and of SupabaseStorage.store_rows.
rows_to_insert_of(document_id, rws) ==
    [k \in 1..Len(rws) |->
        [document_id |-> document_id, row_index |-> k - 1, raw_json |-> rws[k]]]

\* A slice that takes one row more: rows_to_insert[i:i + batch_size + 1]
batch_at_overlapping(rows_to_insert, i) ==
    SubSeq(rows_to_insert, i + 1, Min(i + batch_size + 1, Len(rows_to_insert)))

\* rows_to_insert[i:i + batch_size]
batch_at(rows_to_insert, i) ==
    SubSeq(rows_to_insert, i + 1, Min(i + batch_size, Len(rows_to_insert)))

\* The request in service. pc is where it stands: "idle", then inside
\* process_document "update_processing", "parse", "update_empty", "store",
\* "stored" (the rows are stored, the count returned), "raised" (an exception
\* is leaving the try block or the storing function).
IdleTask ==
    [pc |-> "idle", fn |-> "none", document_id |-> "", file_type |-> "",
     rows |-> <<>>, rows_to_insert |-> <<>>, i |-> 0, total_inserted |-> 0,
     error |-> Null]

\* A response: the endpoint asked, the document the request named, the HTTP
\* status and the body.
NoResponse ==
    [endpoint |-> "none", document_id |-> "", status_code |-> 0, body |-> [none |-> Null]]

Response(endpoint, document_id, status_code, body) ==
    [endpoint |-> endpoint, document_id |-> document_id, status_code |-> status_code,
     body |-> body]

\* ParseResponse
ParseResponse(success, rows_extracted, error) ==
    [parse |-> [success |-> success, rows_extracted |-> rows_extracted, error |-> error]]

InitApi ==
    /\ sb = Supabase
    /\ task = IdleTask
    /\ resp = NoResponse
    /\ EngineUnused
    /\ StorageUnused

\* store_extracted_rows is entered with the rows: rows_to_insert is built and
\* the loop stands before its first batch, or is over when there are no rows.
EnterStore(t, fn, document_id, rws) ==
    [t EXCEPT !.fn = fn, !.document_id = document_id, !.rows = rws,
              !.rows_to_insert = rows_to_insert_of(document_id, rws),
              !.i = 0, !.total_inserted = 0, !.error = Null,
              !.pc = IF Len(rws) = 0 THEN "stored" ELSE "store"]

\* The document was uploaded and has not been taken up by process_document.
AwaitsParsing(s, document_id) == s.documents[document_id].status = "uploaded"

\* The document has no extracted rows yet.
NoRowsYet(s, document_id) ==
    \A b \in 1..Len(s.inserts) : s.inserts[b][1].document_id # document_id

\* POST /parse, for a document that awaits parsing: the file type is validated
\* inside the try block, so the HTTPException is caught by `except Exception`
\* and answered as a ParseResponse; a valid request enters process_document.
ParseDocument ==
    /\ task.pc = "idle"
    /\ \E document_id \in DocIds, file_type \in FileTypes :
         /\ AwaitsParsing(sb, document_id)
         /\ IF file_type \notin SupportedTypes
               THEN /\ resp' = Response("parse", document_id, 200,
                                ParseResponse(FALSE, 0,
                                    Some(str(HTTPException(400, "Unsupported file type")))))
                    /\ task' = [IdleTask EXCEPT
                                                !.document_id = document_id,
                                                !.file_type = file_type]
               ELSE /\ resp' = NoResponse
                    /\ task' = [IdleTask EXCEPT
                                                !.fn = "process_document",
                                                !.document_id = document_id,
                                                !.file_type = file_type,
                                                !.pc = "update_processing"]
    /\ UNCHANGED <<sb, engineVars, storeVars>>

\* process_document: the status is set to 'processing' and the parser is
\* looked up.
UpdateProcessing ==
    /\ task.pc = "update_processing"
    /\ \E ok \in BOOLEAN :
           IF ok
               THEN /\ sb' = api_update_document_status(sb, task.document_id,
                                 "processing", Null, Null)
                    /\ task' = IF get_parser(task.file_type).raised
                                   THEN [task EXCEPT !.pc = "raised",
                                            !.error = Some(get_parser(task.file_type).result.error)]
                                   ELSE [task EXCEPT !.pc = "parse"]
               ELSE /\ sb' = sb
                    /\ task' = [task EXCEPT !.pc = "raised", !.error = Some(SupabaseError)]
    /\ UNCHANGED <<resp, engineVars, storeVars>>

\* rows = await parser.parse(file_url): the file gives rows, or the parser
\* raises.
ParseLengths == {0, 1, batch_size + 1}

Parse ==
    /\ task.pc = "parse"
    /\ \/ \E n \in ParseLengths :
              task' = IF n = 0
                          THEN [task EXCEPT !.pc = "update_empty"]
                          ELSE EnterStore(task, "process_document", task.document_id,
                                          ParsedRows(n))
       \/ task' = [task EXCEPT !.pc = "raised", !.error = Some(ParseError)]
    /\ UNCHANGED <<sb, resp, engineVars, storeVars>>

\* if not rows: the status is set to 'completed' with no rows, and 0 returned.
UpdateEmpty ==
    /\ task.pc = "update_empty"
    /\ \E ok \in BOOLEAN :
           IF ok
               THEN /\ sb' = api_update_document_status(sb, task.document_id, "completed",
                                 Some(0), Some("No data found in document"))
                    /\ task' = [task EXCEPT !.pc = "idle"]
                    /\ resp' = Response("parse", task.document_id, 200,
                                ParseResponse(TRUE, 0, Null))
               ELSE /\ sb' = sb
                    /\ task' = [task EXCEPT !.pc = "raised", !.error = Some(SupabaseError)]
                    /\ resp' = resp
    /\ UNCHANGED <<engineVars, storeVars>>

\* One turn of the loop of store_extracted_rows: the batch is inserted and
\* counted, or the insert raises and the function raises with it. After the
\* last batch the function returns total_inserted.
StoreExtractedRows ==
    /\ task.pc = "store"
    /\ task.fn \in {"process_document", "store_extracted_rows"}
    /\ \E ok \in BOOLEAN, batch \in {batch_at(task.rows_to_insert, task.i)} :
           IF ok
               THEN /\ sb' = supabase_insert(sb, batch)
                    /\ task' = [task EXCEPT
                                   !.total_inserted = @ + Len(batch),
                                   !.i = @ + batch_size,
                                   !.pc = IF task.i + batch_size >= Len(task.rows_to_insert)
                                              THEN "stored" ELSE "store"]
               ELSE /\ sb' = sb
                    /\ task' = [task EXCEPT !.pc = "raised", !.error = Some(SupabaseError)]
    /\ UNCHANGED <<resp, engineVars, storeVars>>

\* One turn of the loop of SupabaseStorage.store_rows.
SupabaseStoreRows ==
    /\ task.pc = "store"
    /\ task.fn = "SupabaseStorage.store_rows"
    /\ \E ok \in BOOLEAN, batch \in {batch_at(task.rows_to_insert, task.i)} :
           IF ok
               THEN /\ sb' = supabase_insert(sb, batch)
                    /\ task' = [task EXCEPT
                                   !.total_inserted = @ + Len(batch),
                                   !.i = @ + batch_size,
                                   !.pc = IF task.i + batch_size >= Len(task.rows_to_insert)
                                              THEN "stored" ELSE "store"]
               ELSE /\ sb' = sb
                    /\ task' = [task EXCEPT !.pc = "raised", !.error = Some(SupabaseError)]
    /\ UNCHANGED <<resp, engineVars, storeVars>>

\* process_document after store_extracted_rows returned: the status is set to
\* 'completed' with the count, and the count is returned to parse_document.
UpdateCompleted ==
    /\ task.pc = "stored"
    /\ task.fn = "process_document"
    /\ \E ok \in BOOLEAN :
           IF ok
               THEN /\ sb' = api_update_document_status(sb, task.document_id, "completed",
                                 Some(task.total_inserted), Null)
                    /\ task' = [task EXCEPT !.pc = "idle"]
                    /\ resp' = Response("parse", task.document_id, 200,
                                ParseResponse(TRUE, task.total_inserted, Null))
               ELSE /\ sb' = sb
                    /\ task' = [task EXCEPT !.pc = "raised", !.error = Some(SupabaseError)]
                    /\ resp' = resp
    /\ UNCHANGED <<engineVars, storeVars>>

\* except Exception as e, of process_document: the status is set to 'failed'
\* with str(e) and e is raised again; when that update raises, its exception
\* leaves process_document instead. parse_document answers either with a
\* ParseResponse.
ExceptHandler ==
    /\ task.pc = "raised"
    /\ task.fn = "process_document"
    /\ \E ok \in BOOLEAN, e \in {task.error[1]} :
           IF ok
               THEN /\ sb' = api_update_document_status(sb, task.document_id, "failed",
                                 Null, Some(str(e)))
                    /\ task' = [task EXCEPT !.pc = "idle"]
                    /\ resp' = Response("parse", task.document_id, 200,
                                ParseResponse(FALSE, 0, Some(str(e))))
               ELSE /\ sb' = sb
                    /\ task' = [task EXCEPT !.pc = "idle", !.error = Some(SupabaseError)]
                    /\ resp' = Response("parse", task.document_id, 200,
                                ParseResponse(FALSE, 0, Some(str(SupabaseError))))
    /\ UNCHANGED <<engineVars, storeVars>>

\* GET /document/{document_id}: the HTTPException(404) is raised inside the
\* try block, so `except Exception` catches it and answers 500.
GetDocumentInfo ==
    /\ task.pc \in {"idle", "parse"}
    /\ \E document_id \in DocIds \cup {MissingId}, ok \in BOOLEAN :
           resp' =
               IF ~ok
                   THEN Response("document", document_id, 500,
                         [detail |-> str(SupabaseError)])
               ELSE IF supabase_select(sb, document_id) = <<>>
                   THEN Response("document", document_id, 500,
                         [detail |-> str(HTTPException(404, "Document not found"))])
               ELSE Response("document", document_id, 200,
                     [document |-> supabase_select(sb, document_id)[1]])
    /\ UNCHANGED <<sb, task, engineVars, storeVars>>

NextApi ==
    \/ ParseDocument
    \/ UpdateProcessing
    \/ Parse
    \/ UpdateEmpty
    \/ StoreExtractedRows
    \/ UpdateCompleted
    \/ ExceptHandler
    \/ GetDocumentInfo

SpecApi == InitApi /\ [][NextApi]_vars

\* The storing functions called on their own, one call after the other, each
\* for a document that has no rows yet.
BatchLengths ==
    {0, 1, batch_size, batch_size + 1, MaxBatches * batch_size, MaxBatches * batch_size + 1}

CallStoreExtractedRows ==
    /\ task.pc \in {"idle", "stored", "raised"}
    /\ \E document_id \in DocIds, n \in BatchLengths :
         /\ NoRowsYet(sb, document_id)
         /\ task' = EnterStore(task, "store_extracted_rows",
                              document_id, ParsedRows(n))
    /\ UNCHANGED <<sb, resp, engineVars, storeVars>>

CallSupabaseStoreRows ==
    /\ task.pc \in {"idle", "stored", "raised"}
    /\ \E document_id \in DocIds, n \in BatchLengths :
         /\ NoRowsYet(sb, document_id)
         /\ task' = EnterStore(task, "SupabaseStorage.store_rows",
                              document_id, ParsedRows(n))
    /\ UNCHANGED <<sb, resp, engineVars, storeVars>>

NextBatch ==
    \/ CallStoreExtractedRows
    \/ CallSupabaseStoreRows
    \/ StoreExtractedRows
    \/ SupabaseStoreRows

SpecBatch == InitApi /\ [][NextBatch]_vars

\* ------------------------------------------------------------------ claims
Anomalies == { call.result[m] : m \in 1..Len(call.result) }

\* The number of rows of the feature matrix of the last call.
NEligible == Len(call.internals.features)

\* Every selected feature of input row r (1-based) is absent or does not parse.
NoFeatureParses(r) ==
    \A j \in 1..Len(call.internals.feature_names) :
        to_numeric(Get(rows[r], call.internals.feature_names[j])) = PyNone

\* Python's round(num / den): half to even.
Round(num, den) ==
    LET q == num \div den
        r == num % den
    IN  IF 2 * r < den THEN q
        ELSE IF 2 * r > den THEN q + 1
        ELSE IF q % 2 = 0 THEN q ELSE q + 1

\* C1: a call on fewer than min_samples rows (the empty input included) returns
\* the empty list from the gate, without a fault and without extracting,
\* preprocessing or scoring anything, whatever the rows hold.
C1_BelowMinSamplesEmpty ==
    (call.outcome # "none" /\ Len(rows) < self.min_samples) =>
        /\ call.outcome = "returned"
        /\ call.result = <<>>
        /\ ~call.fault
        /\ call.stage = "gate"
        /\ call.internals = NoInternals

\* C1 witness: three rows with numeric cells, turned away by the default gate.
C1_Witness ==
    /\ call.outcome = "returned"
    /\ call.stage = "gate"
    /\ Len(rows) = 3
    /\ self.min_samples = DefaultMinSamples
    /\ numeric_fields(rows) # {}

C3_Deterministic ==
    calls >= 2 => call.result = prev

\* C4: every anomaly's row_index is an index into the input rows, its raw_json
\* is the input row at that index, and it is the original index of the matrix
\* row whose score the anomaly carries, also when earlier rows were dropped.
C4_RowIndexFidelity ==
    \A an \in Anomalies :
        /\ an.row_index \in 0..(Len(rows) - 1)
        /\ an.raw_json = rows[an.row_index + 1]
        /\ \E m \in 1..NEligible :
            /\ call.internals.row_indices[m] = an.row_index
            /\ call.internals.predictions[m] = -1
            /\ call.internals.scores[m] = an.evidence.anomaly_score
            /\ call.internals.features[m]
                 = row_features(rows[an.row_index + 1], call.internals.feature_names)

\* C4 witness: an anomaly whose row_index differs from its matrix index because
\* an earlier row was dropped.
C4_Witness ==
    \E an \in Anomalies :
        \E m \in 1..NEligible :
            /\ call.internals.row_indices[m] = an.row_index
            /\ an.row_index # m - 1
            /\ rows[m] # rows[an.row_index + 1]

\* C5: the anomalies are in strictly ascending row_index order.
C5_AscendingRowIndex ==
    \A m1, m2 \in 1..Len(call.result) :
        m1 < m2 => call.result[m1].row_index < call.result[m2].row_index

\* C5 witness: a call that returned two anomalies.
C5_Witness == Len(call.result) >= 2

\* C6 as stated: the number of anomalies of a run that reaches the model is
\* round(contamination * n_eligible_rows).
C6_CountIsRounded ==
    call.stage = "labeled" =>
        Len(call.result) = Round(self.contamination * NEligible, 100)

\* C6 amended: the number of anomalies of a run that reaches the model is the
\* number of matrix rows whose score is strictly below the contamination
\* percentile of the scores; it is at most
\* floor(contamination * (n_eligible_rows - 1)) + 1 and never exceeds
\* n_eligible_rows.
C6_CountBounded ==
    call.stage = "labeled" =>
        /\ Len(call.result)
             = Cardinality({ m \in 1..NEligible : call.internals.scores[m] < 0 })
        /\ Len(call.result) <= (self.contamination * (NEligible - 1)) \div 100 + 1
        /\ Len(call.result) <= NEligible

\* C6 witness: a run in which rows tie at the threshold and the bound is not
\* reached, after three or more rows were scored.
C6_Witness ==
    /\ call.stage = "labeled"
    /\ NEligible >= 3
    /\ Len(call.result) < (self.contamination * (NEligible - 1)) \div 100 + 1
    /\ \E m \in 1..NEligible : call.internals.scores[m] = 0

C8_DroppedNeverFlagged ==
    call.internals.feature_names # <<>> =>
        \A r \in 1..Len(rows) :
            NoFeatureParses(r) =>
                /\ \A m \in 1..Len(call.internals.row_indices) :
                       call.internals.row_indices[m] # r - 1
                /\ \A an \in Anomalies : an.row_index # r - 1

\* C8 witness: a run that flagged a row while another row had no feature that
\* parses.
C8_Witness ==
    /\ call.stage = "labeled"
    /\ call.result # <<>>
    /\ \E r \in 1..Len(rows) : NoFeatureParses(r)

\* C9: a flagged row is "high" when its decision score is <= -0.1 and "medium"
\* otherwise.
C9_Severity ==
    \A an \in Anomalies :
        an.severity = (IF an.evidence.anomaly_score <= SeverityCutoff
                       THEN "high" ELSE "medium")

\* C9 witness: a call that returned a "medium" anomaly.
C9_Witness ==
    \E an \in Anomalies : an.severity = "medium"

\* C10 as stated: a flagged row whose decision score is exactly -0.1 is
\* "medium".
C10_BoundaryMedium ==
    \A an \in Anomalies :
        an.evidence.anomaly_score = SeverityCutoff => an.severity = "medium"

\* C10 amended: a flagged row whose decision score is exactly -0.1 is "high".
C10_BoundaryHigh ==
    \A an \in Anomalies :
        an.evidence.anomaly_score = SeverityCutoff => an.severity = "high"

\* C10 witness: a flagged row whose decision score is exactly -0.1.
C10_Witness ==
    \E an \in Anomalies : an.evidence.anomaly_score = SeverityCutoff

\* Column key holds, in one of the rows sampled for feature selection, a value
\* that coerces to a number, and its lower-cased name is not reserved.
IsFeatureColumn(key) ==
    /\ key \notin {"page", "Page", "PAGE", "table", "Table", "TABLE",
                   "row_index", "Row_Index", "ROW_INDEX", "id", "Id", "ID"}
    /\ \E i \in 1..Min(Len(rows), 50) :
           key \in DOMAIN rows[i] /\ to_numeric(rows[i][key]) # PyNone

\* The column names of the input.
Columns == UNION { DOMAIN rows[i] : i \in 1..Len(rows) }

\* C11: a call on at least min_samples rows none of whose columns qualifies as
\* a numeric feature returns the empty list as an ordinary early exit: no
\* fault, nothing imputed, scaled, predicted or scored, no forest fitted.
C11_NoFeaturesEmpty ==
    (/\ call.outcome # "none"
     /\ Len(rows) >= self.min_samples
     /\ \A key \in Columns : ~IsFeatureColumn(key))
    => /\ call.outcome = "returned"
       /\ call.stage = "no_features"
       /\ call.result = <<>>
       /\ ~call.fault
       /\ call.internals.X_imputed = <<>>
       /\ call.internals.X_scaled = <<>>
       /\ call.internals.predictions = <<>>
       /\ call.internals.scores = <<>>
       /\ forest = NoForest

\* A call on enough rows that hold text, missing cells and numbers under a
\* reserved name only.
C11_Witness ==
    /\ call.stage = "no_features"
    /\ Len(rows) >= self.min_samples
    /\ Len(rows) >= 2
    /\ \E i \in 1..Len(rows) : \E key \in DOMAIN rows[i] : rows[i][key] # NoneVal
    /\ \A key \in Columns : ~IsFeatureColumn(key)

\* The names in feature_names of the last call.
FeatureSet ==
    { call.internals.feature_names[j] : j \in 1..Len(call.internals.feature_names) }

\* C12: the features of a call that passes the gate are exactly the columns
\* that hold a value coercing to a number in one of the first min(len(rows), 50)
\* rows and whose name, in any letter case, is not page, table, row_index or
\* id; each is listed once. A column numeric only past the sample is not a
\* feature.
C12_FeatureSelection ==
    call.stage \notin {"none", "gate"}
    => /\ FeatureSet = { key \in Columns : IsFeatureColumn(key) }
       /\ Cardinality(FeatureSet) = Len(call.internals.feature_names)

\* A call on more than 50 rows in which a column holds a number only past the
\* sample, and a column under a reserved name in capitals holds a number too:
\* neither is a feature, the column numeric within the sample is.
C12_Witness ==
    /\ call.stage = "labeled"
    /\ Len(rows) > 50
    /\ \E key \in Columns \ FeatureSet :
           /\ key \notin {"Page", "ID"}
           /\ \E i \in 51..Len(rows) :
                  key \in DOMAIN rows[i] /\ to_numeric(rows[i][key]) # PyNone
    /\ \E i \in 1..Len(rows) :
           "Page" \in DOMAIN rows[i] /\ to_numeric(rows[i]["Page"]) # PyNone
    /\ "Page" \notin FeatureSet
    /\ FeatureSet # {}

\* The cell of input row r (1-based) under a column name, coerced; NaN when it
\* is absent, None or does not parse.
Coerced(r, key) ==
    IF key \in DOMAIN rows[r] /\ to_numeric(rows[r][key]) # PyNone
    THEN to_numeric(rows[r][key])
    ELSE NaN

\* C13: after feature extraction the matrix and the row index map have the
\* same length, at most the number of input rows; the map is strictly
\* increasing; matrix row m holds, in feature_names order, the coerced values
\* of input row row_indices[m] (NaN for a missing one); and an input row is in
\* the matrix exactly when one of its feature cells coerced.
C13_MatrixInvariant ==
    (call.stage \notin {"none", "gate"} /\ call.internals.feature_names # <<>>)
    => LET X == call.internals.features
           idx == call.internals.row_indices
           names == call.internals.feature_names
       IN  /\ Len(X) = Len(idx)
           /\ Len(X) <= Len(rows)
           /\ \A m \in 1..Len(idx) : idx[m] \in 0..(Len(rows) - 1)
           /\ \A m \in 1..(Len(idx) - 1) : idx[m] < idx[m + 1]
           /\ \A m \in 1..Len(X) :
                  /\ Len(X[m]) = Len(names)
                  /\ \A j \in 1..Len(names) : X[m][j] = Coerced(idx[m] + 1, names[j])
           /\ \A r \in 1..Len(rows) :
                  (\E m \in 1..Len(idx) : idx[m] = r - 1)
                  <=> (\E j \in 1..Len(names) : to_numeric(Get(rows[r], names[j])) # PyNone)

\* A matrix of two columns that leaves out an input row between two it keeps.
C13_Witness ==
    /\ call.stage = "labeled"
    /\ LET X == call.internals.features
           idx == call.internals.row_indices
       IN  /\ Len(X) >= 2
           /\ Len(X) < Len(rows)
           /\ \E m \in 1..(Len(idx) - 1) : idx[m + 1] > idx[m] + 1
           /\ Len(call.internals.feature_names) = 2

\* The position (1-based) in the matrix of the input row with 0-based index r0.
MatrixRow(r0) ==
    CHOOSE m \in 1..Len(call.internals.row_indices) : call.internals.row_indices[m] = r0

\* The column of the matrix read from the input under one column name.
ColumnOf(key) ==
    AsTuple([ m \in 1..Len(call.internals.row_indices) |->
                <<Coerced(call.internals.row_indices[m] + 1, key)>> ])

\* The mean-imputed value of column key in matrix row m; a column without any
\* observed value has no mean and is given as 0.
ImputedOf(key, m) ==
    LET XI == impute(ColumnOf(key))
    IN  IF NCols(XI) = 0 THEN [num |-> 0, den |-> 1] ELSE XI[m][1]

\* The standardized value of column key in matrix row m.
StandardizedOf(key, m) ==
    LET XI == impute(ColumnOf(key))
    IN  IF NCols(XI) = 0 THEN [sgn |-> 0, num |-> 0, den |-> 1] ELSE scale(XI)[m][1]

\* The evidence of anomaly an is read from the column it names.
AttributedToNamedColumn(an) ==
    LET key == an.evidence.key_feature
        m == MatrixRow(an.row_index)
    IN  /\ key \in FeatureSet
        /\ an.evidence.feature_value = ImputedOf(key, m)
        /\ an.evidence.z_score_approx = StandardizedOf(key, m)
        /\ \A other \in FeatureSet :
               ~AbsLess(StandardizedOf(key, m), StandardizedOf(other, m))

\* C14: for every anomaly, key_feature is a feature, z_score_approx is the
\* standardized value and feature_value the imputed, unscaled value of that
\* feature in the anomaly's row, and no feature of the row has a standardized
\* value of larger absolute value.
C14_Attribution == \A an \in Anomalies : AttributedToNamedColumn(an)

\* The same, for the calls whose imputer kept every column of the matrix.
C14_AttributionAllColumnsObserved ==
    NCols(call.internals.X_imputed) = Len(call.internals.feature_names)
    => \A an \in Anomalies : AttributedToNamedColumn(an)

\* C15: a call of detect_anomalies leaves the caller's rows (their cells and
\* their order) and the detector (config, contamination, min_samples,
\* random_state) as they were.
C15_ReadOnly == [][rows' = rows /\ self' = self]_vars

\* Two calls were made on the same detector and the same rows, and both
\* returned anomalies.
C15_Witness ==
    /\ calls >= 2
    /\ call.result # <<>>
    /\ prev # <<>>
    /\ self.config # {}

\* The value the caller supplied under a key, or the default.
Configured(key, default) ==
    IF \E p \in self.config : p[1] = key
    THEN (CHOOSE p \in self.config : p[1] = key)[2]
    ELSE default

\* C17: the detector runs with the contamination, the min_samples and the
\* random seed the caller configured, and with 0.05 (5 percent), 20 and 42
\* where the caller configured none.
C17_ConfiguredValuesUsed ==
    /\ self.contamination = Configured("ml_contamination", 5)
    /\ self.min_samples = Configured("ml_min_samples", 20)
    /\ self.random_state = Configured("random_seed", 42)

\* What the detector does with its configuration: contamination and
\* min_samples are the configured values or 0.05 and 20, the gate and the
\* threshold of a call use them, and the seed is 42 whatever was configured.
C17_ContaminationAndMinSamplesUsed ==
    /\ self.contamination = Configured("ml_contamination", 5)
    /\ self.min_samples = Configured("ml_min_samples", 20)
    /\ self.random_state = 42
    /\ call.stage # "none"
       => /\ call.stage = "gate" <=> Len(rows) < Configured("ml_min_samples", 20)
          /\ call.stage = "labeled"
             => call.internals.scores
                  = decision_function(forest, Configured("ml_contamination", 5))

\* The input rows (1-based) whose numeric value under column key differs from
\* the value of every other row, while all the other rows hold one value.
DifferingRows(key) ==
    UNION { { r \in 1..Len(rows) :
                \E others \in {{ col[q] : q \in (1..Len(rows)) \ {r} }} :
                    /\ Cardinality(others) <= 1
                    /\ col[r] \notin others } :
            col \in {AsTuple([ r \in 1..Len(rows) |-> Coerced(r, key) ])} }

\* The input has a single numeric column, every row holds a number in it, and
\* all rows but one hold the same number.
SingleColumnScenario ==
    /\ Cardinality({ key \in Columns : IsFeatureColumn(key) }) = 1
    /\ \E key \in Columns :
           /\ IsFeatureColumn(key)
           /\ \A r \in 1..Len(rows) : Coerced(r, key).k = "num"
           /\ DifferingRows(key) # {}

\* The last call returned one anomaly: the differing row, under its column.
OneAnomalyAtDifferingRow ==
    /\ Len(call.result) = 1
    /\ \E key \in Columns :
           /\ IsFeatureColumn(key)
           /\ call.result[1].row_index + 1 \in DifferingRows(key)
           /\ call.result[1].evidence.key_feature = key

UsableColumns ==
    Cardinality({ j \in 1..NCols(call.internals.features) :
                    Present(Column(call.internals.features, j)) # {} })

\* C20 as stated: a call that passes the gate with a matrix of fewer than 2
\* usable columns or fewer than 2 rows returns the empty list and does not
\* fault.
C20_SmallMatrixEmpty ==
    (call.stage \notin {"none", "gate"} /\ (UsableColumns < 2 \/ NEligible < 2))
    => call.outcome = "returned" /\ call.result = <<>>

\* C20 for what the code does: such a call never raises; it returns the empty
\* list when the matrix has fewer than 2 rows or no usable column.
C20_SmallMatrixNeverRaises ==
    (call.stage \notin {"none", "gate"} /\ (UsableColumns < 2 \/ NEligible < 2))
    => /\ call.outcome = "returned"
       /\ (NEligible < 2 \/ UsableColumns = 0) => call.result = <<>>

\* A call on enough rows whose only column holds no observed value: the
\* scaler is handed a matrix without columns.
C20_Witness ==
    /\ call.stage = "scaler"
    /\ Len(rows) >= self.min_samples
    /\ NEligible >= 2
    /\ UsableColumns = 0
    /\ call.result = <<>>

\* A call on enough rows of which one row alone has data.
C20_WitnessOneRow ==
    /\ call.stage = "labeled"
    /\ Len(rows) >= self.min_samples
    /\ NEligible = 1
    /\ call.result = <<>>

\* The cell without its currency signs, commas and spaces.
Stripped == SelectSeq(cell, LAMBDA ch : ch \notin {"$", ",", " "})

\* C19: _to_numeric never raises; it returns None for None and for a value
\* that, every "$", "," and space removed, float() does not parse, and the
\* parsed float otherwise; _is_numeric is true exactly when _to_numeric does
\* not return None.
C19_CoercionTotal ==
    coerced.called
    => /\ coerced.to_numeric # ValueError
       /\ coerced.to_numeric =
            (IF cell = NoneVal \/ PyFloat(Stripped) = ValueError
             THEN PyNone ELSE PyFloat(Stripped))
       /\ coerced.is_numeric <=> coerced.to_numeric # PyNone

\* A cell with a currency sign and a space around a digit is coerced to 1.
C19_Witness ==
    /\ coerced.called
    /\ Len(cell) = 3
    /\ cell[1] = "$"
    /\ \E k \in 2..3 : cell[k] = " "
    /\ coerced.to_numeric = Num(1)
    /\ coerced.is_numeric

\* A cell that still holds a letter after stripping is coerced to None.
C19_WitnessNone ==
    /\ coerced.called
    /\ cell # NoneVal
    /\ \E k \in 1..Len(cell) : cell[k] = ","
    /\ \E k \in 1..Len(cell) : cell[k] = "x"
    /\ coerced.to_numeric = PyNone
    /\ ~coerced.is_numeric

\* What call t returns when it runs alone, with the same order of the field
\* names and the same seeded forest.
Alone(t) == detect_anomalies(self, th[t].rows, th[t].names, th[t].sc)

\* C16: whatever the interleaving of the concurrent calls, each call that has
\* returned has returned what it returns alone, and calls in flight hold
\* forest objects of their own.
C16_ConcurrentCallsIndependent ==
    /\ \A t \in DOMAIN th :
           th[t].pc = "done"
           => /\ th[t].result = Alone(t).result
              /\ th[t].outcome = Alone(t).outcome
    /\ \A t, u \in DOMAIN th :
           (t # u /\ th[t].pc = "fitted" /\ th[u].pc = "fitted")
           => th[t].ref # th[u].ref

\* A call on one input returned an anomaly after the other call, on another
\* input, had fitted its forest and before that call scored.
C16_Witness ==
    /\ DOMAIN th = Threads
    /\ th[1].pc = "done"
    /\ th[1].overlapped
    /\ th[1].result # <<>>
    /\ th[2].pc = "fitted"
    /\ th[2].rows # th[1].rows

\* ------------------------------------------------------------------ C21
\* Two rationals num/den are the same number.
SameRational(p, q) == p.num * q.den = q.num * p.den

\* What the preprocessing is to put in matrix row m of the column of feature j:
\* the parsed value, or the mean of the column's parsed values in a missing
\* cell, or 0 in a column without any parsed value.
MeanImputed(m, j) ==
    LET col == Column(call.internals.features, j)
    IN  IF col[m] # NaN THEN [num |-> col[m].v, den |-> 1]
        ELSE IF ColCount(col) = 0 THEN [num |-> 0, den |-> 1]
        ELSE [num |-> ColSum(col), den |-> ColCount(col)]

\* C21: the imputed and the standardized matrix have one column per feature
\* name, and the cell of feature j in every row of the imputed matrix is the
\* parsed value, the column mean in a missing cell, and 0 in a column that is
\* entirely missing.
C21_ColumnPerFeature ==
    Len(call.internals.X_imputed) > 0
    => /\ NCols(call.internals.X_imputed) = Len(call.internals.feature_names)
       /\ NCols(call.internals.X_scaled) = Len(call.internals.feature_names)
       /\ \A m \in 1..Len(call.internals.X_imputed) :
           \A j \in 1..Len(call.internals.feature_names) :
               SameRational(call.internals.X_imputed[m][j], MeanImputed(m, j))

\* The same, for the calls in which every feature has a parsed value in some
\* row of the matrix.
C21_ObservedColumnsImputed ==
    (/\ Len(call.internals.X_imputed) > 0
     /\ \A j \in 1..Len(call.internals.feature_names) :
            ColCount(Column(call.internals.features, j)) > 0)
    => C21_ColumnPerFeature

\* ------------------------------------------------------------------ C22
\* The extracted_rows and anomalies records of document d.
RowsOf(d) == { r \in db.extracted_rows : r.document_id = d }
AnomaliesOf(d) == anomalies_of(db, d)

\* The last call was delete_document and has returned.
Deleted == op.name = "delete_document" /\ ~op.raised

\* C22: after delete_document(d) has returned, no extracted_rows record and no
\* anomalies record with document_id d is in the database.
C22_DeleteRemovesAssociated ==
    Deleted => RowsOf(op.document_id) = {} /\ AnomaliesOf(op.document_id) = <<>>

\* The same where the SQLite library enforces foreign keys by default; and
\* the document record itself is gone in every case.
C22_DeleteCascadesWhereEnforced ==
    Deleted => /\ ~HasDocument(db, op.document_id)
               /\ db.foreign_keys
                  => RowsOf(op.document_id) = {} /\ AnomaliesOf(op.document_id) = <<>>

\* ------------------------------------------------------------------ C23
\* The document record of d.
DocumentOf(d, document_id) == CHOOSE doc \in d.documents : doc.id = document_id

\* This step is a call of store_anomalies that returned.
StoreAnomaliesReturns ==
    /\ Len(log') > Len(log)
    /\ op'.name = "store_anomalies"
    /\ ~op'.raised

\* C23: a call of store_anomalies(d, anomalies) leaves the status, rows_count,
\* error_message and insights_summary of the document record d as they were.
C23_StoreAnomaliesFrame ==
    [][(StoreAnomaliesReturns /\ HasDocument(db, op'.document_id))
       => /\ HasDocument(db', op'.document_id)
          /\ LET before == DocumentOf(db, op'.document_id)
                 after == DocumentOf(db', op'.document_id)
             IN  /\ after.status = before.status
                 /\ after.rows_count = before.rows_count
                 /\ after.error_message = before.error_message
                 /\ after.insights_summary = before.insights_summary]_vars

\* What the call does leave alone: rows_count, error_message, insights_summary
\* and every other document; the status it leaves is NULL.
C23_StoreAnomaliesNullsStatus ==
    [][(StoreAnomaliesReturns /\ HasDocument(db, op'.document_id))
       => /\ HasDocument(db', op'.document_id)
          /\ LET before == DocumentOf(db, op'.document_id)
                 after == DocumentOf(db', op'.document_id)
             IN  /\ after.status = Null
                 /\ after.anomalies_count = Some(op'.result.count)
                 /\ after.rows_count = before.rows_count
                 /\ after.error_message = before.error_message
                 /\ after.insights_summary = before.insights_summary
          /\ \A doc \in db.documents : doc.id # op'.document_id => doc \in db'.documents]_vars

\* ------------------------------------------------------------------ C24
\* Document d was stored and every call that wrote since was store_anomalies
\* for d, one of them at least.
OnlyStoreAnomalies(d) ==
    /\ Len(log) >= 2
    /\ log[1].name = "store_document" /\ log[1].document_id = d /\ ~log[1].raised
    /\ \A k \in 2..Len(log) : log[k].name = "store_anomalies" /\ log[k].document_id = d

\* C24: after any sequence of store_anomalies calls for d, anomalies_count of
\* d is the number of anomalies records of d, the length of get_anomalies(d).
C24_CountMatchesStored ==
    \A d \in DocIds :
        OnlyStoreAnomalies(d)
        => DocumentOf(db, d).anomalies_count = Some(Len(get_anomalies(db, d).result))

\* The calls of store_anomalies for d that returned, in order.
ReturnedStoreAnomalies(d) ==
    SelectSeq(log, LAMBDA c : c.name = "store_anomalies" /\ c.document_id = d /\ ~c.raised)

\* What holds instead: anomalies_count is the length of the list of the last
\* call that returned, the number of records the sum of all of them.
C24_CountIsLastCall ==
    \A d \in DocIds :
        (OnlyStoreAnomalies(d) /\ ReturnedStoreAnomalies(d) # <<>>)
        => LET made == ReturnedStoreAnomalies(d)
           IN  /\ DocumentOf(db, d).anomalies_count = Some(made[Len(made)].result.count)
               /\ Len(get_anomalies(db, d).result)
                      = SumSeq(AsTuple([ k \in 1..Len(made) |-> made[k].result.count ]))

\* ------------------------------------------------------------------ C29
\* Every call that wrote for d was store_document or store_rows, and one
\* store_rows at least has returned.
ReturnedStoreRows(d) ==
    SelectSeq(log, LAMBDA c : c.name = "store_rows" /\ c.document_id = d /\ ~c.raised)

OnlyStoreRows(d) ==
    /\ \A k \in 1..Len(log) :
           log[k].document_id = d => log[k].name \in {"store_document", "store_rows"}
    /\ ReturnedStoreRows(d) # <<>>

\* The rows handed to the most recent store_rows call for d.
LastRows(d) == ReturnedStoreRows(d)[Len(ReturnedStoreRows(d))].args.rows

\* Positions offset..offset+limit-1 (0-based) of a list of rows, as get_rows
\* gives them.
PageOf(rws, limit, offset) ==
    AsTuple([ k \in 1..Max(0, Min(limit, Len(rws) - offset)) |->
                [row_index |-> offset + k - 1, raw_json |-> rws[offset + k]] ])

\* C29: after any sequence of store_rows calls for d the records of d are the
\* rows of the most recent call, one per row_index 0..n-1, and get_rows gives
\* positions offset..offset+limit-1 of them in ascending row_index order.
C29_RowsAreLastCall ==
    \A d \in DocIds :
        OnlyStoreRows(d)
        => /\ RowsOf(d) = { [document_id |-> d, row_index |-> idx,
                             raw_json |-> json_dumps(LastRows(d)[idx + 1])] :
                            idx \in 0..(Len(LastRows(d)) - 1) }
           /\ (op.name = "get_rows" /\ op.document_id = d
                  /\ op.args.limit >= 0 /\ op.args.offset >= 0)
              => op.result.rows = PageOf(LastRows(d), op.args.limit, op.args.offset)

\* What holds instead: the records at row_index 0..n-1 are the rows of the
\* most recent call, records of earlier calls stay at the positions from n
\* on, and get_rows gives its page of all of them in ascending row_index order.
C29_RowsOverwriteByPosition ==
    \A d \in DocIds :
        OnlyStoreRows(d)
        => /\ \A idx \in 0..(Len(LastRows(d)) - 1) :
                  [document_id |-> d, row_index |-> idx,
                   raw_json |-> json_dumps(LastRows(d)[idx + 1])] \in RowsOf(d)
           /\ \A r \in RowsOf(d) :
                  r.row_index >= Len(LastRows(d))
                  => \E k \in 1..Len(ReturnedStoreRows(d)) :
                        LET earlier == ReturnedStoreRows(d)[k].args.rows
                        IN  /\ r.row_index < Len(earlier)
                            /\ r.raw_json = json_dumps(earlier[r.row_index + 1])
           /\ (op.name = "get_rows" /\ op.document_id = d
                  /\ op.args.limit >= 0 /\ op.args.offset >= 0)
              => LET got == op.result.rows
                 IN  /\ Len(got) = Max(0, Min(op.args.limit,
                                              Cardinality(RowsOf(d)) - op.args.offset))
                     /\ \A k \in 1..Len(got) :
                            /\ [document_id |-> d, row_index |-> got[k].row_index,
                                raw_json |-> json_dumps(got[k].raw_json)] \in RowsOf(d)
                            /\ k > 1 => got[k - 1].row_index < got[k].row_index
                            /\ Cardinality({ r \in RowsOf(d) :
                                               r.row_index < got[k].row_index })
                                   = op.args.offset + k - 1

\* ------------------------------------------------------------------ C25
\* The step on which process_document finishes: it returns to parse_document,
\* or an exception leaves it.
Finishes == task.fn = "process_document" /\ task.pc # "idle" /\ task'.pc = "idle"

StatusOf(s, document_id) == s.documents[document_id].status

\* What parse_document answered.
Answered == resp.body.parse

\* C25 as stated: whenever process_document finishes, by returning or by
\* raising, the status of the document is 'completed' or 'failed'; it never
\* remains 'processing'.
C25_NeverRemainsProcessing ==
    [][Finishes => StatusOf(sb', task.document_id) \in {"completed", "failed"}]_vars

\* C25, amended: process_document returns with the status 'completed'. When an
\* exception e leaves its try block, from the parser, from the storing of rows
\* or from a status update, and the update of the handler succeeds, the status
\* is 'failed' with the message str(e) and e is raised again; when that update
\* raises too, the exception of the update leaves process_document and the
\* tables stay as they were, the status 'processing' included.
C25_FailedUnlessUpdateRaises ==
    [][Finishes =>
         IF task.pc # "raised"
             THEN /\ StatusOf(sb', task.document_id) = "completed"
                  /\ Answered'.success
             ELSE \/ /\ StatusOf(sb', task.document_id) = "failed"
                     /\ sb'.documents[task.document_id].error_message
                            = Some(str(task.error[1]))
                     /\ Answered' = [success |-> FALSE, rows_extracted |-> 0,
                                     error |-> Some(str(task.error[1]))]
                  \/ /\ sb' = sb
                     /\ Answered' = [success |-> FALSE, rows_extracted |-> 0,
                                     error |-> Some(str(SupabaseError))]]_vars

\* The parser raised, and process_document left the document 'failed' with the
\* message of that error.
C25_Witness ==
    /\ task.pc = "idle"
    /\ task.fn = "process_document"
    /\ task.error = Some(ParseError)
    /\ StatusOf(sb, task.document_id) = "failed"
    /\ sb.documents[task.document_id].error_message = Some(str(ParseError))
    /\ resp.endpoint = "parse"
    /\ Answered.error = Some(str(ParseError))

\* ------------------------------------------------------------------ C26
\* The extracted_rows records of a document.
StoredRows(s, document_id) ==
    SelectSeq(extracted_rows(s), LAMBDA r : r.document_id = document_id)

\* C26 as stated: a document with status 'completed' has rows_count equal to
\* the number of its extracted_rows records, 0 with the message 'No data found
\* in document' when the parser returned no rows; a document with status
\* 'failed' has no extracted rows stored by the run that failed.
C26_RowsMatchStatus ==
    \A document_id \in DocIds :
        LET doc == sb.documents[document_id]
            stored == StoredRows(sb, document_id)
        IN  /\ doc.status = "completed" =>
                /\ doc.rows_count = Some(Len(stored))
                /\ stored = <<>> => doc.error_message = Some("No data found in document")
            /\ doc.status = "failed" => stored = <<>>

\* The part of C26 the code keeps: the step that writes 'completed' finds every
\* row the parser returned stored, in order, and writes their number as
\* rows_count, with the message when there are none.
C26_CompletedAfterAllRows ==
    [][(/\ task.fn = "process_document"
        /\ StatusOf(sb, task.document_id) # "completed"
        /\ StatusOf(sb', task.document_id) = "completed")
       => /\ StoredRows(sb', task.document_id)
                = rows_to_insert_of(task.document_id, task.rows)
          /\ sb'.documents[task.document_id].rows_count = Some(Len(task.rows))
          /\ task.rows = <<>> =>
                sb'.documents[task.document_id].error_message
                    = Some("No data found in document")]_vars

\* A run whose second insert raised: the document is 'failed' and the first
\* batch_size rows are stored.
C26_FailedWithFirstBatch ==
    \E document_id \in DocIds :
        /\ StatusOf(sb, document_id) = "failed"
        /\ Len(StoredRows(sb, document_id)) = batch_size

\* ------------------------------------------------------------------ C27
\* The step on which POST /parse is answered for a file type that is not pdf,
\* csv or xlsx.
RejectsFileType ==
    /\ task.pc = "idle"
    /\ task'.pc = "idle"
    /\ resp'.endpoint = "parse"
    /\ task'.file_type \notin SupportedTypes
    /\ task' # task

\* C27 as stated: a request whose file_type is not one of pdf, csv, xlsx is
\* answered with HTTP 400, nothing is parsed and the status of the document
\* does not change.
C27_Rejects400 ==
    [][RejectsFileType => /\ resp'.status_code = 400
                          /\ sb' = sb]_vars

\* What the code does with such a request: nothing is parsed and no table
\* changes, and the answer is HTTP 200 with a ParseResponse that carries the
\* HTTPException as its error.
C27_RejectsInsideResponse ==
    [][RejectsFileType =>
          /\ sb' = sb
          /\ resp'.status_code = 200
          /\ Answered' = [success |-> FALSE, rows_extracted |-> 0,
                          error |-> Some(str(HTTPException(400, "Unsupported file type")))]]_vars

\* ------------------------------------------------------------------ C28
\* GET /document/{document_id} was answered last.
AnsweredDocument == resp.endpoint = "document"

DocumentExists(s, document_id) == document_id \in DOMAIN s.documents

\* C28 as stated: for a document id that does not exist the answer is HTTP 404
\* unless the lookup failed, and HTTP 500 is answered only when the lookup in
\* Supabase itself failed.
C28_Missing404 ==
    AnsweredDocument =>
        /\ resp.status_code = 500 => resp.body = [detail |-> str(SupabaseError)]
        /\ ~DocumentExists(sb, resp.document_id) => resp.status_code \in {404, 500}

\* What the code does: a document id that does not exist is always answered
\* with HTTP 500, whose detail is the text of the HTTPException(404) when the
\* lookup succeeded; a document that exists is answered with HTTP 200 and the
\* record, or with HTTP 500 when the lookup failed.
C28_MissingAnswers500 ==
    AnsweredDocument =>
        IF DocumentExists(sb, resp.document_id)
            THEN \/ resp.status_code = 200 /\ resp.body.document.id = resp.document_id
                 \/ resp.status_code = 500 /\ resp.body = [detail |-> str(SupabaseError)]
            ELSE /\ resp.status_code = 500
                 /\ resp.body.detail \in {str(SupabaseError),
                                          str(HTTPException(404, "Document not found"))}

\* ------------------------------------------------------------------ C30
\* A storing function is at work or has just finished.
Storing == task.fn \in {"store_extracted_rows", "SupabaseStorage.store_rows"}

\* The batches of the call in `task`: the insert requests made for its
\* document (each document is stored by one call).
BatchesOf(s, document_id) ==
    SelectSeq(s.inserts, LAMBDA batch : batch[1].document_id = document_id)

\* C30: at every point of a call the batches inserted so far are consecutive
\* pieces of the input, each of at most batch_size rows and all but the last of
\* exactly batch_size, issued in ascending row_index order; put together they
\* are the first total_inserted rows of the input, each once, with row_index
\* its position. When the call returns, every row is in and the count returned
\* is len(rows).
C30_BatchesPartitionRows ==
    Storing =>
        LET batches == BatchesOf(sb, task.document_id)
            stored == Flatten(batches)
        IN  /\ \A b \in 1..Len(batches) :
                  /\ Len(batches[b]) >= 1
                  /\ Len(batches[b]) <= batch_size
                  /\ batches[b][1].row_index = (b - 1) * batch_size
                  /\ b < Len(batches) => Len(batches[b]) = batch_size
            /\ Len(stored) = task.total_inserted
            /\ \A k \in 1..Len(stored) :
                  stored[k] = [document_id |-> task.document_id, row_index |-> k - 1,
                               raw_json |-> task.rows[k]]
            /\ task.pc = "stored" =>
                  /\ task.total_inserted = Len(task.rows)
                  /\ stored = rows_to_insert_of(task.document_id, task.rows)
                  /\ Len(batches) = (Len(task.rows) + batch_size - 1) \div batch_size

\* A call has returned that had more rows than fit in MaxBatches full
\* batches: it took MaxBatches + 1 inserts.
C30_Witness ==
    /\ Storing
    /\ task.pc = "stored"
    /\ Len(task.rows) = MaxBatches * batch_size + 1
    /\ Len(BatchesOf(sb, task.document_id)) = MaxBatches + 1
    /\ task.total_inserted = Len(task.rows)

====
